---- MODULE Spec2Model ----
(***************************************************************************)
(* Verification model of the invitation card engine of sherehezetu:        *)
(* events/utils.py (CardGenerator, generate_qr_code,                       *)
(* generate_invitation_card, generate_cards_for_event,                     *)
(* process_batch_guests), events/models.py (Guest) and the views that      *)
(* change guests.                                                          *)
(***************************************************************************)
EXTENDS Integers, Sequences, FiniteSets, TLC

VARIABLES
    pc,          \* position inside CardGenerator.generate()
    event,       \* the theme inputs read through self.settings
    card,        \* self.card
    current_y,   \* the cursor threaded through generate()
    entered,     \* the stages entered so far, in order
    failed,      \* the stages in which an exception was raised
    escaped,     \* the stages an exception left uncaught
    result,      \* what generate() handed to its caller
    pasted,      \* where draw_qr_section pasted the bordered QR code
    texts,       \* the boxes of the texts the last stage drew
    qpc,         \* position inside generate_qr_code()
    qargs,       \* the arguments of the generate_qr_code() call
    qlocals,     \* its local variables fill_color, back_color, qr_img
    qres,        \* what generate_qr_code() handed to its caller
    qguest,      \* the guest whose code the caller renders
    guests,      \* the Guest table: primary key -> row
    next_id,     \* the next primary key the table hands out
    issued,      \* per primary key, the qr_code the guest was created with
    ops,         \* how many requests of other actors have been served
    bpc,         \* position inside generate_cards_for_event()
    total_guests,   \* its local total_guests
    queue,       \* the guests its loop has yet to visit
    fetched,     \* the guests its queryset gave, in iteration order
    success_count,  \* its local success_count
    results,     \* its local results
    rendered,    \* the calls of generate_invitation_card() its loop made
    summary,     \* what generate_cards_for_event() returned
    hex_in,      \* the argument of one call of hex_to_rgb()
    hex_out,     \* what that call returned
    font_in,     \* one request to the body of load_custom_font()
    font_out,    \* what the body returned for it
    font_cache,  \* the lru_cache of load_custom_font, least recent first
    callers,     \* per thread, its call of load_custom_font in progress
    calls_made,  \* how many calls of load_custom_font were started
    font_uses,   \* the uses, stores and evictions the cache has seen
    wrap_in,     \* the arguments of one call of wrap_text()
    wpc,         \* position inside wrap_text()
    words,       \* its local words
    line,        \* its local line
    lines,       \* its local lines, returned at the end
    shrink,      \* the shrink-to-fit loop being run: its stage and limits
    spc,         \* position inside that loop
    font_size,   \* its local font_size
    attempts,    \* its local attempts
    measured,    \* the sizes it measured the text at, with the widths found
    file_in,     \* the guest whose artifact names are derived
    file_out,    \* the two names derived
    show_decorations,  \* settings["decorations"]["show_decorations"]
    dpc,         \* position inside add_decorative_elements()
    area,        \* the index of the safe area its outer loop is at
    left,        \* the passes its inner loop has yet to make there
    shapes,      \* per safe area, how many shapes were drawn in it
    shape,       \* the shape drawn last
    via,         \* the argument via of batch_send_invitations()
    mpc,         \* position inside batch_send_invitations()
    to_start,    \* the threads its loop has yet to start
    threads,     \* the threads it started, in order
    artifacts    \* per guest, the thread whose files guest.save() stored

genVars == <<pc, event, card, current_y, entered, failed, escaped, result,
             pasted, texts>>
qrVars == <<qpc, qargs, qlocals, qres, qguest>>

tableVars == <<guests, next_id, issued, ops>>
batchVars == <<bpc, total_guests, queue, fetched, success_count, results,
               rendered, summary>>

hexVars == <<hex_in, hex_out>>
fontVars == <<font_in, font_out, font_cache, callers, calls_made, font_uses>>
wrapVars == <<wrap_in, wpc, words, line, lines>>
shrinkVars == <<shrink, spc, font_size, attempts, measured>>
fileVars == <<file_in, file_out>>
helperVars == <<hexVars, fontVars, wrapVars, shrinkVars, fileVars>>

decorVars == <<show_decorations, dpc, area, left, shapes, shape>>
sendVars == <<via, mpc, to_start, threads, artifacts>>
moreVars == <<decorVars, sendVars>>

vars == <<genVars, qrVars, tableVars, batchVars, helperVars, moreVars>>

\* what the steps of one function leave alone: the state of the others
GenFrame == UNCHANGED <<qrVars, tableVars, batchVars, helperVars, moreVars>>
QrFrame == UNCHANGED <<genVars, tableVars, batchVars, helperVars, moreVars>>
TableFrame == UNCHANGED <<genVars, qrVars, helperVars, moreVars>>
HexFrame == UNCHANGED <<genVars, qrVars, tableVars, batchVars, fontVars,
                        wrapVars, shrinkVars, fileVars, moreVars>>
FontFrame == UNCHANGED <<genVars, qrVars, tableVars, batchVars, hexVars,
                         wrapVars, shrinkVars, fileVars, moreVars>>
WrapFrame == UNCHANGED <<genVars, qrVars, tableVars, batchVars, hexVars,
                         fontVars, shrinkVars, fileVars, moreVars, wrap_in>>
ShrinkFrame == UNCHANGED <<genVars, qrVars, tableVars, batchVars, hexVars,
                           fontVars, wrapVars, fileVars, moreVars, shrink>>
FileFrame == UNCHANGED <<genVars, qrVars, tableVars, batchVars, hexVars,
                         fontVars, wrapVars, shrinkVars, moreVars>>
DecorFrame == UNCHANGED <<genVars, qrVars, tableVars, batchVars, helperVars,
                          sendVars, show_decorations>>
SendFrame == UNCHANGED <<genVars, qrVars, tableVars, batchVars, helperVars,
                         decorVars, via>>

----------------------------------------------------------------------------
\* Module constants of events/utils.py

PRINT_DPI == 300
SCREEN_DPI == 96
CARD_WIDTH_INCHES == 5
CARD_HEIGHT_INCHES == 7

\* int(k * (PRINT_DPI / SCREEN_DPI)) for a literal k >= 0: 300/96 = 3.125 is
\* exact in binary floating point, so int() is the integer quotient.
Px(k) == (k * PRINT_DPI) \div SCREEN_DPI

\* CardGenerator.__init__
width_swapped == CARD_HEIGHT_INCHES * PRINT_DPI
width == CARD_WIDTH_INCHES * PRINT_DPI
height == CARD_HEIGHT_INCHES * PRINT_DPI
margin == Px(60)
content_width == width - (2 * margin)

----------------------------------------------------------------------------
\* Images (PIL.Image): a size, a fill colour and the stages that drew on it.

NoImage == [kind |-> "None"]
White == "white"

\* Image.new('RGB', (w, h), fill)
ImageNew(w, h, fill) ==
    [kind |-> "image", size |-> <<w, h>>, fill |-> fill, painted |-> {}]

\* drawing on an image in place (ImageDraw calls, Image.paste)
Paint(img, stage) == [img EXCEPT !.painted = @ \cup {stage}]

\* Image.resize((w, h), ...)
Resize(img, w, h) == [img EXCEPT !.size = <<w, h>>]

\* Image.alpha_composite(base, over): a new image of the size of base;
\* PIL raises ValueError when the two sizes differ.
CanComposite(base, over) == base.size = over.size
AlphaComposite(base, over) == [base EXCEPT !.painted = @ \cup {"bg_image"}]


----------------------------------------------------------------------------
\* Text: a Python str is a sequence of one-character strings.

Whitespace == {" ", "\t", "\n"}

RECURSIVE lstrip(_, _)
\* str.lstrip(chars)
lstrip(s, chars) ==
    IF s # << >> /\ Head(s) \in chars THEN lstrip(Tail(s), chars) ELSE s

RECURSIVE rstrip(_, _)
\* str.rstrip(chars)
rstrip(s, chars) ==
    IF s # << >> /\ s[Len(s)] \in chars
    THEN rstrip(SubSeq(s, 1, Len(s) - 1), chars)
    ELSE s

\* str.strip()
strip(s) == rstrip(lstrip(s, Whitespace), Whitespace)

\* s[a:b] with 0 <= a <= b
Slice(s, a, b) == SubSeq(s, a + 1, IF b < Len(s) THEN b ELSE Len(s))

HexLower == << "0", "1", "2", "3", "4", "5", "6", "7", "8", "9",
               "a", "b", "c", "d", "e", "f" >>
HexUpper == << "0", "1", "2", "3", "4", "5", "6", "7", "8", "9",
               "A", "B", "C", "D", "E", "F" >>

IsHexDigit(c) == \E i \in 1..16 : HexLower[i] = c \/ HexUpper[i] = c
HexValue(c) == (CHOOSE i \in 1..16 : HexLower[i] = c \/ HexUpper[i] = c) - 1

RECURSIVE HexNumber(_)
\* the value of a non-empty run of hexadecimal digits
HexNumber(s) ==
    IF s = << >> THEN 0
    ELSE 16 * HexNumber(SubSeq(s, 1, Len(s) - 1)) + HexValue(s[Len(s)])

AllHex(s) == s # << >> /\ \A i \in 1..Len(s) : IsHexDigit(s[i])

\* int(s, 16) for a slice s of at most two characters: surrounding
\* whitespace is dropped, one sign is accepted, the rest must be digits
\* ("0x" alone and "_" beside one digit are errors).  ok = FALSE: ValueError.
Int16(s) ==
    LET t == strip(s)
        signed == t # << >> /\ Head(t) \in {"+", "-"}
        digits == IF signed THEN Tail(t) ELSE t
    IN  IF AllHex(digits)
        THEN [ok |-> TRUE,
              value |-> IF signed /\ Head(t) = "-"
                        THEN 0 - HexNumber(digits) ELSE HexNumber(digits)]
        ELSE [ok |-> FALSE, value |-> 0]

\* the colour hex_to_rgb returns for input it rejects
DefaultPurple == <<124, 61, 237>>

\* ''.join([c*2 for c in hex_color]) for a three-character string
Doubled(s) == << s[1], s[1], s[2], s[2], s[3], s[3] >>

\* hex_to_rgb that reads the channels in the order blue, green, red
hex_to_rgb_bgr(hex_color) ==
    LET h0 == strip(lstrip(hex_color, {"#"}))
        h == IF Len(h0) = 3 THEN Doubled(h0) ELSE h0
        r == Int16(Slice(h, 4, 6))
        g == Int16(Slice(h, 2, 4))
        b == Int16(Slice(h, 0, 2))
    IN  IF Len(h) \in {6, 8}
        THEN IF r.ok /\ g.ok /\ b.ok
             THEN <<r.value, g.value, b.value>>
             ELSE DefaultPurple
        ELSE DefaultPurple

\* hex_to_rgb(hex_color) for a str argument
hex_to_rgb(hex_color) ==
    LET h0 == strip(lstrip(hex_color, {"#"}))
        h == IF Len(h0) = 3 THEN Doubled(h0) ELSE h0
        r == Int16(Slice(h, 0, 2))
        g == Int16(Slice(h, 2, 4))
        b == Int16(Slice(h, 4, 6))
    IN  IF Len(h) \in {6, 8}
        THEN IF r.ok /\ g.ok /\ b.ok
             THEN <<r.value, g.value, b.value>>
             ELSE DefaultPurple
        ELSE DefaultPurple

\* Colour strings handed to hex_to_rgb: up to MaxPairs two-character pieces,
\* then at most one more character, after zero, one or two '#'.
MaxPairs == 4
Pairs == { << "7", "C" >>, << "3", "a" >>, << "E", "D" >>,
           << "-", "1" >>, << "1", " " >>, << "g", "0" >> }
Tails == { << >>, << "f" >>, << "g" >>, << " " >>, << "#" >> }
Hashes == { << >>, << "#" >>, << "#", "#" >> }

RECURSIVE Joined(_)
\* ''.join(pieces)
Joined(pieces) ==
    IF pieces = << >> THEN << >> ELSE Head(pieces) \o Joined(Tail(pieces))

HexInputs ==
    { h \o Joined(ps) \o t :
        h \in Hashes, t \in Tails,
        ps \in UNION { [1..n -> Pairs] : n \in 0..MaxPairs } }

NoColour == [kind |-> "none"]
Colour(rgb) == [kind |-> "rgb", value |-> rgb]

HexIdle ==
    /\ hex_in = << >>
    /\ hex_out = NoColour

HexInit ==
    /\ hex_in \in HexInputs
    /\ hex_out = NoColour

\* one call hex_to_rgb(hex_in)
HexCall ==
    /\ hex_out = NoColour
    /\ hex_out' = Colour(hex_to_rgb(hex_in))
    /\ UNCHANGED hex_in
    /\ HexFrame

----------------------------------------------------------------------------
\* Guest.qr_code and Guest.generate_qr_data (events/models.py)

Digits == << "0", "1", "2", "3", "4", "5", "6", "7", "8", "9" >>

RECURSIVE str_int(_)
\* str(n) for an int n >= 0, as an f-string renders a primary key
str_int(n) ==
    IF n < 10 THEN << Digits[n + 1] >>
    ELSE Append(str_int(n \div 10), Digits[(n % 10) + 1])

\* A uuid.UUID is 128 bits: 32 hexadecimal digits.  NumUuids values stand for
\* what uuid.uuid4() may draw.
NumUuids == 2
UuidOf(k) == [i \in 1..32 |-> (k * i + 7 * k) % 16]
Uuids == { UuidOf(k) : k \in 0..(NumUuids - 1) }

RECURSIVE HexText(_)
\* the lower-case hexadecimal text of a sequence of digit values
HexText(ds) ==
    IF ds = << >> THEN << >>
    ELSE << HexLower[Head(ds) + 1] >> \o HexText(Tail(ds))

\* str(u) for a uuid.UUID u: groups of 8-4-4-4-12 digits joined by "-"
str_uuid(u) ==
    HexText(SubSeq(u, 1, 8)) \o << "-" >> \o HexText(SubSeq(u, 9, 12))
        \o << "-" >> \o HexText(SubSeq(u, 13, 16))
        \o << "-" >> \o HexText(SubSeq(u, 17, 20))
        \o << "-" >> \o HexText(SubSeq(u, 21, 32))

\* Guest.generate_qr_data with the separators as they could be mistyped
generate_qr_data_spaced(guest) ==
    << "E", "V", "E", "N", "T", ":" >> \o str_int(guest.event)
        \o << "|", "G", "U", "E", "S", "T", ":" >> \o str_int(guest.id)
        \o << "|", "C", "O", "D", "E", ":", " " >> \o str_uuid(guest.qr_code)

\* Guest.generate_qr_data:
\* f"EVENT:{self.event.id}|GUEST:{self.id}|CODE:{self.qr_code}"
generate_qr_data(guest) ==
    << "E", "V", "E", "N", "T", ":" >> \o str_int(guest.event)
        \o << "|", "G", "U", "E", "S", "T", ":" >> \o str_int(guest.id)
        \o << "|", "C", "O", "D", "E", ":" >> \o str_uuid(guest.qr_code)

----------------------------------------------------------------------------
\* CardGenerator.generate(): the nine stages, in the order generate() calls them

Stages == << "create_background", "add_decorative_border", "draw_header",
             "draw_guest_section", "draw_invitation_message",
             "draw_event_details_card", "draw_qr_section",
             "add_decorative_elements", "add_footer" >>

StageIndex(s) == CHOOSE i \in 1..Len(Stages) : Stages[i] = s

\* an order of calls that leaves out every other stage
AfterStage_skipping(s) ==
    IF StageIndex(s) + 2 > Len(Stages)
    THEN "return"
    ELSE Stages[StageIndex(s) + 2]

\* the statement generate() runs after stage s returns normally
AfterStage(s) ==
    IF StageIndex(s) = Len(Stages) THEN "return" ELSE Stages[StageIndex(s) + 1]

NoResult == [kind |-> "none"]

\* the box an image pasted onto the card covers; none pasted yet
NoPaste == [kind |-> "none"]
Pasted(x, y, w, h) == [kind |-> "paste", x |-> x, y |-> y, w |-> w, h |-> h]
Returned(img) == [kind |-> "image", image |-> img]
Raised == [kind |-> "raise"]

\* Inputs of one render.  TextHeights: heights PIL may measure for the title;
\* MaxLines bounds the number of lines wrap_text gives for the message.
TextHeights == {0, 150, 240}
MaxLines == 2
BackgroundFiles == {NoImage, ImageNew(800, 600, "photo")}

Events ==
    [show_border : BOOLEAN, show_decorations : BOOLEAN,
     template_svg : BackgroundFiles]

\* The state after CardGenerator.__init__
GenInit ==
    /\ pc = "create_background"
    /\ event \in Events
    /\ card = NoImage
    /\ current_y = 0
    /\ entered = << >>
    /\ failed = {}
    /\ escaped = {}
    /\ result = NoResult
    /\ pasted = NoPaste
    /\ texts = {}

Enter(s) == entered' = Append(entered, s)

\* A stage whose try block ran to its end, or whose handler did.
Continue(s) == pc' = AfterStage(s)

\* CardGenerator.load_background_image: None, or the file resized to the card
load_background_image ==
    IF event.template_svg = NoImage
    THEN NoImage
    ELSE Resize(event.template_svg, width, height)

\* CardGenerator.create_background.  at: where the try block raised
\* ("none": it did not); handler_ok: whether the handler's own Image.new and
\* ImageDraw.Draw succeeded.
create_background ==
    /\ pc = "create_background"
    /\ Enter("create_background")
    /\ \E at \in {"none", "new", "gradient", "composite"}, handler_ok \in BOOLEAN :
        LET s == "create_background"
            base == Paint(ImageNew(width, height, "background"), s)
            bg == load_background_image
            done == IF bg = NoImage THEN base ELSE AlphaComposite(base, bg)
        IN  /\ at = "composite" => bg # NoImage
            /\ IF at = "none" /\ (bg # NoImage => CanComposite(base, bg))
               THEN /\ card' = done
                    /\ Continue(s)
                    /\ UNCHANGED <<failed, escaped>>
               ELSE /\ failed' = failed \cup {s}
                    /\ IF handler_ok
                       THEN /\ card' = ImageNew(width, height, White)
                            /\ Continue(s)
                            /\ UNCHANGED escaped
                       ELSE /\ card' = IF at = "new" THEN card ELSE base
                            /\ escaped' = escaped \cup {s}
                            /\ pc' = "except"
    /\ UNCHANGED <<event, current_y, result, pasted, texts>>
    /\ GenFrame

\* A stage that returns nothing: add_decorative_border, add_decorative_elements
\* (shown: the flag read before the try block), add_footer (shown = TRUE).
DrawStage(s, shown) ==
    /\ pc = s
    /\ Enter(s)
    /\ IF ~shown
       THEN UNCHANGED <<card, failed>>
       ELSE \E raises \in BOOLEAN :
               IF raises
               THEN /\ failed' = failed \cup {s}
                    /\ UNCHANGED card
               ELSE /\ card' = Paint(card, s)
                    /\ UNCHANGED failed
    /\ Continue(s)
    /\ UNCHANGED <<event, current_y, escaped, result, pasted>>
    /\ GenFrame

\* the box a text of the measured width and height covers when drawn at (x, y)
TextBox(x, y, text_width, text_height) ==
    [x |-> x, y |-> y, w |-> text_width, h |-> text_height]

\* x = (self.width - text_width) // 2
Centred(text_width) == (width - text_width) \div 2

\* Widths self.draw.textbbox may measure for a text: a short one, one as wide
\* as the content area.  A text is taken to be as high as its font size.
TextWidths == {Px(128), content_width}

\* the texts of a stage: none when the stage failed
Drawn(s, boxes) == IF s \in failed' THEN {} ELSE boxes

add_decorative_border ==
    /\ DrawStage("add_decorative_border", event.show_border)
    /\ UNCHANGED texts
add_decorative_elements ==
    /\ DrawStage("add_decorative_elements", event.show_decorations)
    /\ UNCHANGED texts

\* add_footer(current_y): three centred lines, int(35 * scale) apart
add_footer ==
    /\ DrawStage("add_footer", TRUE)
    /\ \E text_width \in TextWidths :
          texts' = Drawn("add_footer",
                         { TextBox(Centred(text_width),
                                   current_y + k * Px(35), text_width, Px(22)) :
                             k \in 0..2 })

\* CursorStage without its try/except: the exception leaves the stage.
CursorStage_uncaught(s, y_ok, y_except) ==
    /\ pc = s
    /\ Enter(s)
    /\ \E raises \in BOOLEAN :
          IF raises
          THEN /\ failed' = failed \cup {s}
               /\ escaped' = escaped \cup {s}
               /\ pc' = "except"
               /\ UNCHANGED <<card, current_y>>
          ELSE /\ card' = Paint(card, s)
               /\ current_y' = y_ok
               /\ Continue(s)
               /\ UNCHANGED <<failed, escaped>>
    /\ UNCHANGED <<event, result>>
    /\ GenFrame

\* CursorStage whose handler returns the cursor it was given.
CursorStage_stalled(s, y_ok, y_except) ==
    /\ pc = s
    /\ Enter(s)
    /\ \E raises \in BOOLEAN :
          IF raises
          THEN /\ failed' = failed \cup {s}
               /\ UNCHANGED <<card, current_y>>
          ELSE /\ card' = Paint(card, s)
               /\ current_y' = y_ok
               /\ UNCHANGED failed
    /\ Continue(s)
    /\ UNCHANGED <<event, escaped, result>>
    /\ GenFrame

\* A stage that returns the cursor: y_ok on its success path, y_except from
\* its handler.
CursorStage(s, y_ok, y_except) ==
    /\ pc = s
    /\ Enter(s)
    /\ \E raises \in BOOLEAN :
          IF raises
          THEN /\ failed' = failed \cup {s}
               /\ current_y' = y_except
               /\ UNCHANGED card
          ELSE /\ card' = Paint(card, s)
               /\ current_y' = y_ok
               /\ UNCHANGED failed
    /\ Continue(s)
    /\ UNCHANGED <<event, escaped, result>>
    /\ GenFrame

\* draw_header: header_height 180, divider 20 below the title, 30 below that
HeaderY(text_height) ==
    ((Px(180) - text_height) \div 2) + text_height + Px(20) + Px(30)

draw_header ==
    /\ \E text_height \in TextHeights, text_width \in TextWidths :
          /\ CursorStage("draw_header", HeaderY(text_height), Px(200))
          /\ texts' = Drawn("draw_header",
                            { TextBox(Centred(text_width),
                                      (Px(180) - text_height) \div 2,
                                      text_width, text_height) })
    /\ UNCHANGED pasted

\* draw_guest_section: the name centred in the highlight, 140 * scale high
draw_guest_section ==
    /\ CursorStage("draw_guest_section",
                   current_y + Px(140) + Px(40), current_y + Px(180))
    /\ \E text_width \in TextWidths :
          texts' = Drawn("draw_guest_section",
                         { TextBox(Centred(text_width),
                                   current_y + (Px(140) - Px(72)) \div 2,
                                   text_width, Px(72)) })
    /\ UNCHANGED pasted

\* draw_invitation_message: one line_height = font_size + int(10 * scale) per
\* wrapped line
draw_invitation_message ==
    /\ \E n_lines \in 0..MaxLines, text_width \in TextWidths :
          /\ CursorStage("draw_invitation_message",
                         current_y + n_lines * (Px(36) + Px(10)) + Px(30),
                         current_y + Px(150))
          /\ texts' = Drawn("draw_invitation_message",
                            { TextBox(Centred(text_width),
                                      current_y + (k - 1) * (Px(36) + Px(10)),
                                      text_width, Px(36)) :
                                k \in 1..n_lines })
    /\ UNCHANGED pasted

\* draw_event_details_card: date, time and venue, int(55 * scale) apart,
\* int(60 * scale) right of the card's left edge
draw_event_details_card ==
    /\ CursorStage("draw_event_details_card",
                   current_y + Px(280) + Px(40), current_y + Px(320))
    /\ \E text_width \in TextWidths :
          texts' = Drawn("draw_event_details_card",
                         { TextBox(margin + Px(60),
                                   current_y + Px(50) + k * Px(55),
                                   text_width, Px(32)) :
                             k \in 0..2 })
    /\ UNCHANGED pasted

\* draw_qr_section: qr_size, qr_x, border_size
qr_size == Px(320)
qr_x == (width - qr_size) \div 2
border_size == Px(8)

\* self.card.paste(bordered_qr, (qr_x - border_size, qr_y - border_size)),
\* with qr_y = start_y
qr_paste(start_y) ==
    Pasted(qr_x - border_size, start_y - border_size,
           qr_size + 2 * border_size, qr_size + 2 * border_size)

\* draw_qr_section: two instruction lines under the code.  A failure of the
\* stage may come before the paste or after it (reached).
draw_qr_section ==
    /\ CursorStage("draw_qr_section",
                   current_y + Px(320) + Px(30) + 2 * Px(40) + Px(20),
                   current_y + Px(450))
    /\ \E reached \in BOOLEAN :
          pasted' = IF "draw_qr_section" \in failed' /\ ~reached
                    THEN NoPaste
                    ELSE qr_paste(current_y)
    /\ \E text_width \in TextWidths :
          texts' = Drawn("draw_qr_section",
                         { TextBox(Centred(text_width),
                                   current_y + qr_size + Px(30) + k * Px(40),
                                   text_width, Px(28)) :
                             k \in 0..1 })

\* generate(): return self.card
GenReturn ==
    /\ pc = "return"
    /\ result' = Returned(card)
    /\ pc' = "done"
    /\ UNCHANGED <<event, card, current_y, entered, failed, escaped, pasted,
                   texts>>
    /\ GenFrame

\* generate(): the except clause, which allocates the blank card itself
GenExcept ==
    /\ pc = "except"
    /\ \E new_ok \in BOOLEAN :
          result' = IF new_ok THEN Returned(ImageNew(width, height, White))
                    ELSE Raised
    /\ pc' = "done"
    /\ UNCHANGED <<event, card, current_y, entered, failed, escaped, pasted,
                   texts>>
    /\ GenFrame

GenNext ==
    \/ create_background
    \/ add_decorative_border
    \/ draw_header
    \/ draw_guest_section
    \/ draw_invitation_message
    \/ draw_event_details_card
    \/ draw_qr_section
    \/ add_decorative_elements
    \/ add_footer
    \/ GenReturn
    \/ GenExcept

\* no render in progress
GenIdle ==
    /\ pc = "idle"
    /\ event = [show_border |-> TRUE, show_decorations |-> TRUE,
                template_svg |-> NoImage]
    /\ card = NoImage
    /\ current_y = 0
    /\ entered = << >>
    /\ failed = {}
    /\ escaped = {}
    /\ result = NoResult
    /\ pasted = NoPaste
    /\ texts = {}

----------------------------------------------------------------------------
\* generate_qr_code(data, size, primary_color, bg_color), called as
\* generate_invitation_card and draw_qr_section call it

Unbound == [bound |-> FALSE]
Bound(v) == [bound |-> TRUE, value |-> v]

\* stands for a text longer than the largest QR symbol holds: qr.make(fit=True)
\* raises DataOverflowError for it
TooLong == << "too long" >>
Encodable(data) == data # TooLong

QrSizes == {300, Px(320)}
PrimaryColors == { << "#", "7", "C", "3", "A", "E", "D" >>,
                   << "f", "0", "0" >>,
                   << "r", "e", "d" >> }
WhiteHex == << "#", "F", "F", "F", "F", "F", "F" >>
QrGuests == [id : {1, 42, 100}, event : {5, 12}, qr_code : Uuids]

QrRaised(error) == [kind |-> "raise", error |-> error]

QrIdle ==
    /\ qpc = "idle"
    /\ qargs = [data |-> << >>, size |-> 0,
                primary_color |-> << >>, bg_color |-> << >>]
    /\ qlocals = [back_color |-> Unbound, qr_img |-> NoImage, raised |-> FALSE]
    /\ qres = NoResult
    /\ qguest = [id |-> 1, event |-> 5, qr_code |-> UuidOf(0)]

QrInit ==
    /\ qpc = "caller"
    /\ qargs = [data |-> << >>, size |-> 0,
                primary_color |-> << >>, bg_color |-> << >>]
    /\ qlocals = [back_color |-> Unbound, qr_img |-> NoImage, raised |-> FALSE]
    /\ qres = NoResult
    /\ qguest \in QrGuests

\* qr_data = guest.generate_qr_data(); generate_qr_code(qr_data, size,
\* primary_color=..., bg_color="#FFFFFF"), or a call with some other text
QrCall ==
    /\ qpc = "caller"
    /\ \E data \in {generate_qr_data(qguest), TooLong}, size \in QrSizes,
          color \in PrimaryColors :
          qargs' = [data |-> data, size |-> size,
                    primary_color |-> color, bg_color |-> WhiteHex]
    /\ qpc' = "add_data"
    /\ UNCHANGED <<qlocals, qres, qguest>>
    /\ QrFrame

\* a library call inside the try block: it returns (then) or raises
QrTry(at, raises, then) ==
    /\ qpc = at
    /\ IF raises
       THEN /\ qpc' = "except"
            /\ qlocals' = [qlocals EXCEPT !.raised = TRUE]
       ELSE /\ qpc' = then
            /\ UNCHANGED qlocals
    /\ UNCHANGED <<qargs, qres, qguest>>
    /\ QrFrame

\* qr = qrcode.QRCode(...); qr.add_data(data)
QrAddData == \E raises \in BOOLEAN : QrTry("add_data", raises, "make")

\* qr.make(fit=True)
QrMake ==
    \E raises \in BOOLEAN :
        /\ ~Encodable(qargs.data) => raises
        /\ QrTry("make", raises, "colors")

\* fill_color = hex_to_rgb(primary_color); back_color = hex_to_rgb(bg_color)
QrColors ==
    /\ qpc = "colors"
    /\ qlocals' = [qlocals EXCEPT !.back_color = Bound(hex_to_rgb(qargs.bg_color))]
    /\ qpc' = "make_image"
    /\ UNCHANGED <<qargs, qres, qguest>>
    /\ QrFrame

\* qr_img = qr.make_image(fill_color=..., back_color=...).convert("RGB")
QrMakeImage ==
    \E raises \in BOOLEAN : QrTry("make_image", raises, "resize")

\* qr_img = qr_img.resize((size, size), LANCZOS); return qr_img
QrResize ==
    /\ qpc = "resize"
    /\ \E raises \in BOOLEAN :
          IF raises
          THEN /\ qpc' = "except"
               /\ qlocals' = [qlocals EXCEPT !.raised = TRUE]
               /\ UNCHANGED qres
          ELSE /\ qpc' = "done"
               /\ qlocals' = [qlocals EXCEPT !.qr_img =
                      Paint(ImageNew(qargs.size, qargs.size,
                                     qlocals.back_color.value), "qr")]
               /\ qres' = Returned(qlocals'.qr_img)
    /\ UNCHANGED <<qargs, qguest>>
    /\ QrFrame

\* except Exception: return Image.new('RGB', (size, size), back_color).
\* Reading back_color before line 95 bound it raises UnboundLocalError.
QrExcept ==
    /\ qpc = "except"
    /\ IF ~qlocals.back_color.bound
       THEN qres' = QrRaised("UnboundLocalError")
       ELSE \E new_ok \in BOOLEAN :
               qres' = IF new_ok
                       THEN Returned(ImageNew(qargs.size, qargs.size,
                                              qlocals.back_color.value))
                       ELSE QrRaised("MemoryError")
    /\ qpc' = "done"
    /\ UNCHANGED <<qargs, qlocals, qguest>>
    /\ QrFrame

QrNext ==
    \/ QrCall
    \/ QrAddData
    \/ QrMake
    \/ QrColors
    \/ QrMakeImage
    \/ QrResize
    \/ QrExcept

----------------------------------------------------------------------------
\* The Guest table (events/models.py) and generate_invitation_card()

MaxGuests == 2
GuestIds == 1..MaxGuests
TheEvent == 5
EmailOf(i) == << "g" >> \o str_int(i) \o << "@", "x", ".", "o", "r", "g" >>
Emails == { EmailOf(i) : i \in GuestIds }
\* full names, in the order Meta.ordering = ['full_name'] sorts them
Names == << << "A", "n", "n" >>, << "J", " ", "O", "'", "B" >> >>
NameRank(n) == CHOOSE i \in 1..Len(Names) : Names[i] = n

NoFile == << >>
NoRow == [exists |-> FALSE]

\* Guest(...): a new object; qr_code takes its default uuid.uuid4()
NewGuest(id, email, name, u) ==
    [exists |-> TRUE, id |-> id, event |-> TheEvent, email |-> email,
     full_name |-> name, qr_code |-> u, invitation_card |-> NoFile,
     qr_code_image |-> NoFile, confirmed |-> FALSE]

\* str.replace(old, new) for one-character old and new
replace(str, old, new) ==
    [i \in 1..Len(str) |-> IF str[i] = old THEN new ELSE str[i]]

\* the name generate_invitation_card stores the card under
card_filename(guest) ==
    << "i", "n", "v", "i", "t", "a", "t", "i", "o", "n", "_" >>
        \o str_int(guest.event) \o << "_" >> \o str_int(guest.id) \o << "_" >>
        \o replace(replace(guest.full_name, " ", "_"), "/", "_")
        \o << ".", "p", "n", "g" >>

\* the name it stores the standalone QR code under
qr_filename(guest) ==
    << "q", "r", "_" >> \o str_int(guest.id) \o << ".", "p", "n", "g" >>

\* the unique constraints of the table: qr_code, and (event, email)
UniqueOk(db, row) ==
    \A j \in DOMAIN db :
        (db[j].exists /\ j # row.id) =>
            /\ db[j].qr_code # row.qr_code
            /\ ~(db[j].event = row.event /\ db[j].email = row.email)

\* Guest.save() that draws a new qr_code on every save
Guest_save_redraw(db, obj, fresh, db_ok) ==
    LET o == [obj EXCEPT !.qr_code = fresh]
    IN  IF db_ok /\ UniqueOk(db, o)
        THEN [ok |-> TRUE, obj |-> o, db |-> [db EXCEPT ![o.id] = o]]
        ELSE [ok |-> FALSE, obj |-> o, db |-> db]

\* Guest.save(): "if not self.qr_code" never holds for a UUID, so the code
\* is kept; Model.save() then writes every field of the object to the row of
\* its primary key (inserting it if the row is gone), or raises.
Guest_save(db, obj, fresh, db_ok) ==
    LET o == IF obj.qr_code = << >> THEN [obj EXCEPT !.qr_code = fresh] ELSE obj
    IN  IF db_ok /\ UniqueOk(db, o)
        THEN [ok |-> TRUE, obj |-> o, db |-> [db EXCEPT ![o.id] = o]]
        ELSE [ok |-> FALSE, obj |-> o, db |-> db]

\* What can go wrong in one call of generate_invitation_card: gen is what
\* CardGenerator.generate() does, fail the later statement that raises.
CallEnvs ==
    { e \in [gen : {"image", "raise"},
             fail : {"none", "card_png", "card_store", "qr", "qr_png",
                     "qr_store", "save"}] :
        e.gen = "raise" => e.fail = "none" }

\* generate_invitation_card whose handler lets the exception through
generate_invitation_card_reraise(obj, env, db, fresh) ==
    LET o1 == [obj EXCEPT !.invitation_card = card_filename(obj)]
        o2 == [o1 EXCEPT !.qr_code_image = qr_filename(obj)]
        sv == Guest_save(db, o2, fresh, env.fail # "save")
    IN  IF env.gen = "raise" \/ env.fail \in {"card_png", "card_store"}
        THEN [ret |-> "raise", obj |-> obj, db |-> db]
        ELSE IF env.fail \in {"qr", "qr_png", "qr_store"}
        THEN [ret |-> "raise", obj |-> o1, db |-> db]
        ELSE IF sv.ok
        THEN [ret |-> "True", obj |-> sv.obj, db |-> sv.db]
        ELSE [ret |-> "raise", obj |-> sv.obj, db |-> db]

\* generate_invitation_card(guest): what it returns, the guest object as it
\* leaves it, and the table
generate_invitation_card(obj, env, db, fresh) ==
    LET o1 == [obj EXCEPT !.invitation_card = card_filename(obj)]
        o2 == [o1 EXCEPT !.qr_code_image = qr_filename(obj)]
        sv == Guest_save(db, o2, fresh, env.fail # "save")
    IN  IF env.gen = "raise" \/ env.fail \in {"card_png", "card_store"}
        THEN [ret |-> "False", obj |-> obj, db |-> db]
        ELSE IF env.fail \in {"qr", "qr_png", "qr_store"}
        THEN [ret |-> "False", obj |-> o1, db |-> db]
        ELSE IF sv.ok
        THEN [ret |-> "True", obj |-> sv.obj, db |-> sv.db]
        ELSE [ret |-> "False", obj |-> sv.obj, db |-> db]

----------------------------------------------------------------------------
\* Requests that change the Guest table.  Each serves one request (or one
\* element of a batch request) from its first statement to its last.

MaxOps == 3

TableIdle ==
    /\ guests = [i \in GuestIds |-> NoRow]
    /\ next_id = 1
    /\ issued = [i \in GuestIds |-> << >>]
    /\ ops = 0

TableInit == TableIdle

\* Tables that earlier requests left behind: guests 1..n were added in turn,
\* some of them had their card generated.  One more request is served while
\* the batch runs.
TableSeeded ==
    \E n \in 0..MaxGuests :
      \E nm \in [1..n -> 1..Len(Names)], cd \in [1..n -> BOOLEAN] :
        LET g(i) == NewGuest(i, EmailOf(i), Names[nm[i]], UuidOf(i - 1))
            stored(i) ==
                IF cd[i]
                THEN [g(i) EXCEPT !.invitation_card = card_filename(g(i)),
                                  !.qr_code_image = qr_filename(g(i))]
                ELSE g(i)
        IN  /\ guests = [i \in GuestIds |-> IF i <= n THEN stored(i) ELSE NoRow]
            /\ next_id = n + 1
            /\ issued = [i \in GuestIds |->
                            IF i <= n THEN UuidOf(i - 1) ELSE << >>]
            /\ ops = MaxOps - 1

Existing == { j \in GuestIds : guests[j].exists }

Serve ==
    /\ ops < MaxOps
    /\ ops' = ops + 1
    /\ UNCHANGED batchVars
    /\ TableFrame

\* officer_add_guest, batch_add_guests: Guest(...), guest.save(),
\* generate_invitation_card(guest).  When save() raises, no card is made.
AddGuest ==
    /\ next_id \in GuestIds
    /\ \E email \in Emails, n \in 1..Len(Names), u \in Uuids,
          env \in CallEnvs, db_ok \in BOOLEAN :
          LET obj == NewGuest(next_id, email, Names[n], u)
              ins == Guest_save(guests, obj, u, db_ok)
              call == generate_invitation_card(ins.obj, env, ins.db, u)
          IN  IF ins.ok
              THEN /\ guests' = call.db
                   /\ next_id' = next_id + 1
                   /\ issued' = [issued EXCEPT ![next_id] = ins.obj.qr_code]
              ELSE UNCHANGED <<guests, next_id, issued>>
    /\ Serve

\* process_batch_guests, one element of guests_data: get_or_create on
\* (event, email); an existing guest gets the listed fields and save();
\* then generate_invitation_card(guest)
ImportGuest ==
    /\ \E email \in Emails, n \in 1..Len(Names), u \in Uuids,
          env \in CallEnvs, db_ok \in BOOLEAN :
          LET found == { j \in Existing : guests[j].event = TheEvent
                                          /\ guests[j].email = email }
          IN  IF found # {}
              THEN LET j == CHOOSE j \in found : TRUE
                       obj == [guests[j] EXCEPT !.full_name = Names[n]]
                       sv == Guest_save(guests, obj, u, db_ok)
                       call == generate_invitation_card(sv.obj, env, sv.db, u)
                   IN  /\ guests' = IF sv.ok THEN call.db ELSE guests
                       /\ UNCHANGED <<next_id, issued>>
              ELSE LET obj == NewGuest(next_id, email, Names[n], u)
                       ins == Guest_save(guests, obj, u, db_ok)
                       call == generate_invitation_card(ins.obj, env, ins.db, u)
                   IN  /\ next_id \in GuestIds
                       /\ IF ins.ok
                          THEN /\ guests' = call.db
                               /\ next_id' = next_id + 1
                               /\ issued' = [issued EXCEPT
                                                ![next_id] = ins.obj.qr_code]
                          ELSE UNCHANGED <<guests, next_id, issued>>
    /\ Serve

\* GuestViewSet update through GuestSerializer: qr_code, qr_code_image,
\* invitation_card and confirmed are read-only, the other fields are written
UpdateGuest ==
    /\ \E j \in Existing, email \in Emails, n \in 1..Len(Names),
          u \in Uuids, db_ok \in BOOLEAN :
          LET obj == [guests[j] EXCEPT !.email = email, !.full_name = Names[n]]
          IN  guests' = Guest_save(guests, obj, u, db_ok).db
    /\ UNCHANGED <<next_id, issued>>
    /\ Serve

\* confirm_attendance (POST), GuestViewSet.check_in, guest_check_in_view:
\* confirmed = True, checked_in_at = now, guest.save()
ConfirmAttendance ==
    /\ \E j \in Existing, u \in Uuids, db_ok \in BOOLEAN :
          LET obj == [guests[j] EXCEPT !.confirmed = TRUE]
          IN  guests' = Guest_save(guests, obj, u, db_ok).db
    /\ UNCHANGED <<next_id, issued>>
    /\ Serve

\* regeneration: tasks.generate_all_cards, download_invitation_view,
\* GuestAdmin.generate_selected_cards
RegenerateCard ==
    /\ \E j \in Existing, u \in Uuids, env \in CallEnvs :
          guests' = generate_invitation_card(guests[j], env, guests, u).db
    /\ UNCHANGED <<next_id, issued>>
    /\ Serve

\* GuestViewSet destroy
DeleteGuest ==
    /\ \E j \in Existing : guests' = [guests EXCEPT ![j] = NoRow]
    /\ UNCHANGED <<next_id, issued>>
    /\ Serve

----------------------------------------------------------------------------
\* generate_cards_for_event(event)

\* lengths of the text str(e) of an exception the loop body can raise after
\* the card is made (FieldFile.url), before the [:100] slice
ErrLens == {38, 150}

NoSummary == [kind |-> "none"]
NoCall == [ret |-> "none"]
Summary(total, success, res) ==
    [kind |-> "summary", total |-> total, success |-> success,
     failed |-> total - success, results |-> res]

BatchIdle ==
    /\ bpc = "idle"
    /\ total_guests = 0
    /\ queue = << >>
    /\ fetched = << >>
    /\ success_count = 0
    /\ results = << >>
    /\ rendered = NoCall
    /\ summary = NoSummary

BatchInit ==
    /\ bpc = "count"
    /\ total_guests = 0
    /\ queue = << >>
    /\ fetched = << >>
    /\ success_count = 0
    /\ results = << >>
    /\ rendered = NoCall
    /\ summary = NoSummary

BatchFrame == UNCHANGED <<genVars, qrVars, next_id, issued, ops, helperVars,
                          moreVars>>

\* the except clause of generate_cards_for_event
BatchFailed ==
    /\ summary' = Summary(0, 0, << >>)
    /\ bpc' = "done"

\* total_guests = guests.count()
BatchCount ==
    /\ bpc = "count"
    /\ \E db_ok \in BOOLEAN :
          IF db_ok
          THEN /\ total_guests' = Cardinality(Existing)
               /\ bpc' = "fetch"
               /\ UNCHANGED summary
          ELSE /\ BatchFailed
               /\ UNCHANGED total_guests
    /\ UNCHANGED <<guests, queue, fetched, success_count, results, rendered>>
    /\ BatchFrame

\* Before(a, b): row a comes before row b under ordering = ['full_name']
Before(a, b) ==
    \/ NameRank(a.full_name) < NameRank(b.full_name)
    \/ NameRank(a.full_name) = NameRank(b.full_name) /\ a.id < b.id

\* the rows of the table as the queryset yields them
Ordered(db) ==
    LET rows == { db[j] : j \in { k \in DOMAIN db : db[k].exists } }
    IN  CHOOSE q \in [1..Cardinality(rows) -> rows] :
            /\ \A i, k \in DOMAIN q : i < k => Before(q[i], q[k])

\* for idx, guest in enumerate(guests, 1): the queryset is read once, when
\* the loop starts
BatchFetch ==
    /\ bpc = "fetch"
    /\ \E db_ok \in BOOLEAN :
          IF db_ok
          THEN /\ queue' = Ordered(guests)
               /\ fetched' = Ordered(guests)
               /\ bpc' = "loop"
               /\ UNCHANGED summary
          ELSE /\ BatchFailed
               /\ UNCHANGED <<queue, fetched>>
    /\ UNCHANGED <<guests, total_guests, success_count, results, rendered>>
    /\ BatchFrame

Min(a, b) == IF a < b THEN a ELSE b

\* the entry the loop body appends for one guest.  url_err = 0: reading
\* guest.invitation_card.url succeeded; otherwise it raised an exception
\* whose text has url_err characters.
BatchEntry(obj, call, url_err) ==
    IF call.ret = "True"
    THEN IF url_err = 0
         THEN [guest |-> obj.full_name, status |-> "success",
               card_url |-> call.obj.invitation_card]
         ELSE [guest |-> obj.full_name, status |-> "error",
               error |-> Min(url_err, 100)]
    ELSE IF call.ret = "False"
    THEN [guest |-> obj.full_name, status |-> "failed",
          error |-> Len(<< "G", "e", "n", "e", "r", "a", "t", "i", "o", "n",
                           " ", "f", "a", "i", "l", "e", "d" >>)]
    ELSE [guest |-> obj.full_name, status |-> "error",
          error |-> Min(url_err, 100)]

\* a loop that gives up at the first guest whose card fails
AfterGuest_break(q, ret) == IF ret = "True" THEN Tail(q) ELSE << >>

\* the guests left to visit after one pass of the loop body
AfterGuest(q, ret) == Tail(q)

\* one pass of the loop body (lines 871-892)
BatchGuest ==
    /\ bpc = "loop"
    /\ queue # << >>
    /\ \E env \in CallEnvs, u \in Uuids, url_err \in {0} \cup ErrLens :
          LET obj == Head(queue)
              call == generate_invitation_card(obj, env, guests, u)
          IN  /\ call.ret = "raise" => url_err # 0
              /\ guests' = call.db
              /\ success_count' =
                     IF call.ret = "True" THEN success_count + 1
                     ELSE success_count
              /\ results' = Append(results, BatchEntry(obj, call, url_err))
              /\ rendered' =
                     [ret |-> call.ret, before |-> obj, after |-> call.obj,
                      raised |-> (env.gen = "raise" \/ env.fail # "none"
                                  \/ ~UniqueOk(guests, call.obj)),
                      gen |-> env.gen,
                      row_before |-> guests[obj.id], row |-> call.db[obj.id]]
              /\ queue' = AfterGuest(queue, call.ret)
    /\ UNCHANGED <<bpc, total_guests, fetched, summary>>
    /\ BatchFrame

\* lines 894-902: the summary
BatchSummary ==
    /\ bpc = "loop"
    /\ queue = << >>
    /\ summary' = Summary(total_guests, success_count, results)
    /\ bpc' = "done"
    /\ UNCHANGED <<guests, total_guests, queue, fetched, success_count,
                   results, rendered>>
    /\ BatchFrame

----------------------------------------------------------------------------
\* load_custom_font(font_name, size)

UpperCase == << "A", "B", "C", "D", "E", "F", "G", "H", "I", "J", "K", "L", "M" >>
             \o << "N", "O", "P", "Q", "R", "S", "T", "U", "V", "W", "X", "Y", "Z" >>
LowerCase == << "a", "b", "c", "d", "e", "f", "g", "h", "i", "j", "k", "l", "m" >>
             \o << "n", "o", "p", "q", "r", "s", "t", "u", "v", "w", "x", "y", "z" >>

\* str.lower()
str_lower(s) ==
    [i \in 1..Len(s) |->
        IF \E k \in 1..26 : UpperCase[k] = s[i]
        THEN LowerCase[CHOOSE k \in 1..26 : UpperCase[k] = s[i]]
        ELSE s[i]]

\* sub in s
Contains(sub, s) ==
    \E i \in 1..(Len(s) - Len(sub) + 1) : SubSeq(s, i, i + Len(sub) - 1) = sub

\* the nine places a font file is looked for, in order
font_paths(font_name) ==
    << << "BASE_DIR/static/fonts", font_name, ".ttf" >>,
       << "BASE_DIR/static/fonts", font_name, ".otf" >>,
       << "BASE_DIR/fonts", font_name, ".ttf" >>,
       << "BASE_DIR/fonts", font_name, ".otf" >>,
       << "C:/Windows/Fonts", font_name, ".ttf" >>,
       << "C:/Windows/Fonts", font_name, ".otf" >>,
       << "/System/Library/Fonts", font_name, ".ttf" >>,
       << "/usr/share/fonts/truetype", font_name, ".ttf" >>,
       << "/usr/share/fonts/opentype", font_name, ".otf" >> >>

SansBold == "/usr/share/fonts/truetype/liberation/LiberationSans-Bold.ttf"
SerifRegular == "/usr/share/fonts/truetype/liberation/LiberationSerif-Regular.ttf"
WinArial == "C:/Windows/Fonts/arial.ttf"
WinArialBold == "C:/Windows/Fonts/arialbd.ttf"
WinTimes == "C:/Windows/Fonts/times.ttf"
FallbackPaths == {SansBold, SerifRegular, WinArial, WinArialBold, WinTimes}

fallback_map ==
    << [key |-> << "M", "a", "r", "c", "k", "s", "c", "r", "i", "p", "t" >>,
        paths |-> << SansBold, WinArial >>],
       [key |-> << "D", "a", "n", "c", "i", "n", "g", "S", "c", "r", "i", "p", "t" >>,
        paths |-> << SansBold, WinArialBold >>],
       [key |-> << "P", "l", "a", "y", "f", "a", "i", "r", "D", "i", "s", "p", "l", "a", "y" >>,
        paths |-> << SerifRegular, WinTimes >>],
       [key |-> << "G", "r", "e", "a", "t", "V", "i", "b", "e", "s" >>,
        paths |-> << SansBold, WinArial >>],
       [key |-> << "A", "l", "l", "u", "r", "a" >>,
        paths |-> << SansBold, WinArial >>],
       [key |-> << "S", "a", "c", "r", "a", "m", "e", "n", "t", "o" >>,
        paths |-> << SansBold, WinArial >>],
       [key |-> << "P", "a", "r", "i", "s", "i", "e", "n", "n", "e" >>,
        paths |-> << SansBold, WinArial >>],
       [key |-> << "C", "o", "r", "m", "o", "r", "a", "n", "t" >>,
        paths |-> << SerifRegular, WinTimes >>],
       [key |-> << "C", "a", "r", "d", "o" >>,
        paths |-> << SerifRegular, WinTimes >>] >>

\* A font file is missing, is there but cannot be loaded, or loads.
FontStatus == {"missing", "broken", "ok"}

\* what the nine places hold
DirectWorlds ==
    { [i \in 1..9 |-> "missing"], [i \in 1..9 |-> "broken"] }
    \cup { [i \in 1..9 |-> IF i = k THEN "ok"
                           ELSE IF i < k THEN before ELSE "missing"] :
             k \in {1, 2, 9}, before \in {"missing", "broken"} }

\* what the system font places hold
FallbackWorlds ==
    [FallbackPaths -> {"missing", "ok"}] \cup { [f \in FallbackPaths |-> "broken"] }

\* the file system as one call of load_custom_font finds it; arial: whether
\* ImageFont.truetype("arial.ttf", size) finds and loads the font
FontEnvs == [direct : DirectWorlds, fallback : FallbackWorlds, arial : BOOLEAN]

FontNames == { << >>,
               << "A", "l", "l", "u", "r", "a" >>,
               << "N", "o", "S", "u", "c", "h", "F", "o", "n", "t", "1", "2", "3" >>,
               << "m", "y", "-", "C", "A", "R", "D", "O", "-", "b", "o", "l", "d" >> }
FontSizes == {-5, 0, 40}

DefaultFont == [kind |-> "default"]
\* ImageFont.truetype(path, size); found: which of the three searches of
\* load_custom_font gave the path
TrueType(found, path, size) ==
    [kind |-> "truetype", found |-> found, path |-> path, size |-> size]

\* the places the fallback loops try for font_name, in order
RECURSIVE FallbackCandidates(_, _)
FallbackCandidates(font_name, k) ==
    IF k > Len(fallback_map) THEN << >>
    ELSE (IF Contains(str_lower(fallback_map[k].key), str_lower(font_name))
          THEN fallback_map[k].paths ELSE << >>)
         \o FallbackCandidates(font_name, k + 1)

\* the first index of a sequence of places that loads, 0 if none does
FirstOk(places, status) ==
    IF \E i \in 1..Len(places) : status[i] = "ok"
    THEN CHOOSE i \in 1..Len(places) :
            /\ status[i] = "ok"
            /\ \A j \in 1..(i - 1) : status[j] # "ok"
    ELSE 0

\* load_custom_font whose last resort is not guarded
load_custom_font_unguarded(font_name, size, env) ==
    IF font_name = << >> \/ size <= 0 THEN DefaultFont
    ELSE LET paths == font_paths(font_name)
             d == FirstOk(paths, env.direct)
             cands == FallbackCandidates(font_name, 1)
             f == FirstOk(cands, [i \in 1..Len(cands) |-> env.fallback[cands[i]]])
         IN  IF d # 0 THEN TrueType("font_paths", paths[d], size)
             ELSE IF f # 0 THEN TrueType("fallback_map", cands[f], size)
             ELSE IF env.arial THEN TrueType("arial", "arial.ttf", size)
             ELSE [kind |-> "raise"]

\* the body of load_custom_font(font_name, size) in the file system env
load_custom_font(font_name, size, env) ==
    IF font_name = << >> \/ size <= 0 THEN DefaultFont
    ELSE LET paths == font_paths(font_name)
             d == FirstOk(paths, env.direct)
             cands == FallbackCandidates(font_name, 1)
             f == FirstOk(cands, [i \in 1..Len(cands) |-> env.fallback[cands[i]]])
         IN  IF d # 0 THEN TrueType("font_paths", paths[d], size)
             ELSE IF f # 0 THEN TrueType("fallback_map", cands[f], size)
             ELSE IF env.arial THEN TrueType("arial", "arial.ttf", size)
             ELSE DefaultFont

NoFont == [kind |-> "none"]
NoRequest == [font_name |-> << >>, size |-> 0]

FontBodyIdle ==
    /\ font_in = NoRequest
    /\ font_out = NoFont

NoUses == [clock |-> 0, stored |-> 0, evicted |-> 0]

FontCacheIdle ==
    /\ font_cache = << >>
    /\ callers = << >>
    /\ calls_made = 0
    /\ font_uses = NoUses

FontIdle == FontBodyIdle /\ FontCacheIdle

FontBodyInit ==
    /\ font_in \in [font_name : FontNames, size : FontSizes, env : FontEnvs]
    /\ font_out = NoFont

\* one run of the body
FontBody ==
    /\ font_out = NoFont
    /\ font_in # NoRequest
    /\ font_out' = load_custom_font(font_in.font_name, font_in.size, font_in.env)
    /\ UNCHANGED <<font_in, font_cache, callers, calls_made, font_uses>>
    /\ FontFrame

----------------------------------------------------------------------------
\* @lru_cache(maxsize=256) around load_custom_font, called from the threads
\* that batch_send_invitations starts

FONT_CACHE_MAXSIZE == 256
NumThreads == 2
MaxFontCalls == 2
Threads == 1..NumThreads

FontKey(font_name, size) == [font_name |-> font_name, size |-> size]
NoKey == [font_name |-> << >>, size |-> -1]

\* the keys earlier renders left in the cache: one font at sizes 1001, 1002, ...
SeedKey(i) == FontKey(<< "A", "l", "l", "u", "r", "a" >>, 1000 + i)
CacheFills == {0, FONT_CACHE_MAXSIZE - 1, FONT_CACHE_MAXSIZE}

\* the keys the threads ask for: the oldest of the earlier ones and new ones
CacheRequests ==
    { SeedKey(1),
      FontKey(<< "A", "l", "l", "u", "r", "a" >>, 40),
      FontKey(<< "N", "o", "S", "u", "c", "h", "F", "o", "n", "t",
                 "1", "2", "3" >>, 40),
      FontKey(<< >>, 40) }

\* the file systems a call may find: nothing loads, or the first place does
CacheEnvs ==
    { e \in FontEnvs :
        /\ e.fallback = [f \in FallbackPaths |-> "missing"]
        /\ ~e.arial
        /\ e.direct \in { [i \in 1..9 |-> "missing"],
                          [i \in 1..9 |-> IF i = 1 THEN "ok" ELSE "missing"] } }

\* used: when the entry was stored or last found, on the clock of font_uses
Entry(key, font, used) == [key |-> key, font |-> font, used |-> used]
Position(cache, key) ==
    IF \E i \in 1..Len(cache) : cache[i].key = key
    THEN CHOOSE i \in 1..Len(cache) : cache[i].key = key
    ELSE 0
Without(cache, i) == SubSeq(cache, 1, i - 1) \o SubSeq(cache, i + 1, Len(cache))

\* a hit that leaves the entry where it is
cache_hit_unmoved(cache, i, now) == [cache EXCEPT ![i].used = now]

\* a hit: the entry becomes the most recently used
cache_hit(cache, i, now) ==
    Append(Without(cache, i), [cache[i] EXCEPT !.used = now])

\* a store that does not look whether the key arrived meanwhile
cache_store_unchecked(cache, key, font, now) ==
    IF Len(cache) >= FONT_CACHE_MAXSIZE
    THEN Append(Tail(cache), Entry(key, font, now))
    ELSE Append(cache, Entry(key, font, now))

\* after a miss: nothing if another call stored the key meanwhile; else the
\* least recently used entry makes room when the cache is full
cache_store(cache, key, font, now) ==
    IF Position(cache, key) # 0 THEN cache
    ELSE IF Len(cache) >= FONT_CACHE_MAXSIZE
    THEN Append(Tail(cache), Entry(key, font, now))
    ELSE Append(cache, Entry(key, font, now))

KeysOf(cache) == { cache[i].key : i \in 1..Len(cache) }

\* the smallest time of use among the entries
Oldest(cache) ==
    LET times == { cache[i].used : i \in 1..Len(cache) }
    IN  CHOOSE u \in times : \A v \in times : u <= v

NoCaller == [pc |-> "idle", key |-> NoKey, font |-> NoFont, hit |-> FALSE,
             probed |-> FALSE, cached |-> NoFont, evicted |-> NoKey,
             evicted_used |-> 0, oldest_used |-> 0, size_before |-> 0]

FontCacheInit ==
    /\ \E n \in CacheFills :
          /\ font_cache = [i \in 1..n |-> Entry(SeedKey(i), DefaultFont, i)]
          /\ font_uses = [clock |-> n, stored |-> n, evicted |-> 0]
    /\ callers = [t \in Threads |-> NoCaller]
    /\ calls_made = 0

CacheFrame == /\ UNCHANGED <<font_in, font_out>>
              /\ FontFrame

\* a thread calls load_custom_font(font_name, size)
FontCall(t) ==
    /\ callers[t].pc \in {"idle", "returned"}
    /\ calls_made < MaxFontCalls
    /\ \E key \in CacheRequests :
          callers' = [callers EXCEPT ![t] = [NoCaller EXCEPT !.pc = "lookup",
                                                             !.key = key]]
    /\ calls_made' = calls_made + 1
    /\ UNCHANGED <<font_cache, font_uses>>
    /\ CacheFrame

\* the wrapper looks the key up; a hit returns the cached font
FontLookup(t) ==
    /\ callers[t].pc = "lookup"
    /\ LET i == Position(font_cache, callers[t].key)
       IN  IF i # 0
           THEN /\ font_cache' = cache_hit(font_cache, i, font_uses.clock + 1)
                /\ font_uses' = [font_uses EXCEPT !.clock = @ + 1]
                /\ callers' = [callers EXCEPT ![t].pc = "returned",
                                              ![t].hit = TRUE,
                                              ![t].cached = font_cache[i].font,
                                              ![t].font = font_cache[i].font]
           ELSE /\ callers' = [callers EXCEPT ![t].pc = "body"]
                /\ UNCHANGED <<font_cache, font_uses>>
    /\ UNCHANGED calls_made
    /\ CacheFrame

\* a miss runs the body of load_custom_font
FontMiss(t) ==
    /\ callers[t].pc = "body"
    /\ \E env \in CacheEnvs :
          callers' = [callers EXCEPT
                         ![t].pc = "store",
                         ![t].probed = TRUE,
                         ![t].font = load_custom_font(callers[t].key.font_name,
                                                      callers[t].key.size, env)]
    /\ UNCHANGED <<font_cache, calls_made, font_uses>>
    /\ CacheFrame

\* the wrapper stores the result and returns it
FontStore(t) ==
    /\ callers[t].pc = "store"
    /\ LET stored == cache_store(font_cache, callers[t].key, callers[t].font,
                                 font_uses.clock + 1)
           gone == KeysOf(font_cache) \ KeysOf(stored)
       IN  /\ font_cache' = stored
           /\ font_uses' =
                 IF stored = font_cache THEN font_uses
                 ELSE [clock |-> font_uses.clock + 1,
                       stored |-> font_uses.stored + 1,
                       evicted |-> font_uses.evicted + Cardinality(gone)]
           /\ callers' =
                 IF gone = {}
                 THEN [callers EXCEPT ![t].pc = "returned"]
                 ELSE LET k == CHOOSE k \in gone : TRUE
                          i == Position(font_cache, k)
                      IN  [callers EXCEPT
                              ![t].pc = "returned",
                              ![t].evicted = k,
                              ![t].evicted_used = font_cache[i].used,
                              ![t].oldest_used = Oldest(font_cache),
                              ![t].size_before = Len(font_cache)]
    /\ UNCHANGED calls_made
    /\ CacheFrame

----------------------------------------------------------------------------
\* wrap_text(text, font, max_width)

MaxTextLen == 5
TextChars == {"i", "W", " "}
Texts == UNION { [1..n -> TextChars] : n \in 0..MaxTextLen }
MaxWidths == {-1, 0, 3, 5, 8}

\* the advance of one character in the font
CharWidth(c) == IF c = "W" THEN 3 ELSE 1

RECURSIVE TextWidth(_)
\* bbox[2] - bbox[0] of font.getbbox(s)
TextWidth(s) == IF s = << >> THEN 0 ELSE CharWidth(Head(s)) + TextWidth(Tail(s))

RECURSIVE split(_)
\* str.split(): the runs of characters between whitespace
split(s) ==
    LET t == lstrip(s, Whitespace)
        n == IF \E i \in 1..Len(t) : t[i] \in Whitespace
             THEN (CHOOSE i \in 1..Len(t) :
                      /\ t[i] \in Whitespace
                      /\ \A j \in 1..(i - 1) : t[j] \notin Whitespace) - 1
             ELSE Len(t)
    IN  IF t = << >> THEN << >>
        ELSE << SubSeq(t, 1, n) >> \o split(SubSeq(t, n + 1, Len(t)))

\* a too long word that loses its last character
long_word_cut(ws) == SubSeq(Head(ws), 1, Len(Head(ws)) - 1)

\* the word that fits no line is popped and left out
long_word_dropped(ws) == << >>

\* line = words.pop(0): the line a word gets that fits no line
long_word(ws) == Head(ws)

WrapIdle ==
    /\ wrap_in = [text |-> << >>, max_width |-> 0, font_ok |-> TRUE]
    /\ wpc = "idle"
    /\ words = << >>
    /\ line = << >>
    /\ lines = << >>

\* font_ok: whether font.getbbox can measure the text or raises
WrapInit ==
    /\ wrap_in \in [text : Texts, max_width : MaxWidths, font_ok : BOOLEAN]
    /\ wpc = "call"
    /\ words = << >>
    /\ line = << >>
    /\ lines = << >>

\* lines 187-191
WrapEnter ==
    /\ wpc = "call"
    /\ IF wrap_in.text = << >>
       THEN /\ wpc' = "done"
            /\ UNCHANGED words
       ELSE /\ words' = split(wrap_in.text)
            /\ wpc' = "outer"
    /\ UNCHANGED <<line, lines>>
    /\ WrapFrame

\* while words: line = ''
WrapOuter ==
    /\ wpc = "outer"
    /\ IF words = << >>
       THEN /\ wpc' = "done"
            /\ UNCHANGED line
       ELSE /\ line' = << >>
            /\ wpc' = "inner"
    /\ UNCHANGED <<words, lines>>
    /\ WrapFrame

\* one pass of the inner loop (lines 195-202)
WrapInner ==
    /\ wpc = "inner"
    /\ IF words = << >>
       THEN /\ wpc' = "flush"
            /\ UNCHANGED <<words, line>>
       ELSE LET test_line == line \o Head(words) \o << " " >>
            IN  IF ~wrap_in.font_ok
                THEN /\ wpc' = "raised"
                     /\ UNCHANGED <<words, line>>
                ELSE IF TextWidth(test_line) <= wrap_in.max_width
                THEN /\ line' = test_line
                     /\ words' = Tail(words)
                     /\ UNCHANGED wpc
                ELSE /\ wpc' = "flush"
                     /\ UNCHANGED <<words, line>>
    /\ UNCHANGED lines
    /\ WrapFrame

\* lines 204-208
WrapFlush ==
    /\ wpc = "flush"
    /\ IF line = << >>
       THEN /\ line' = long_word(words)
            /\ words' = Tail(words)
       ELSE UNCHANGED <<words, line>>
    /\ lines' = Append(lines, strip(line'))
    /\ wpc' = "outer"
    /\ WrapFrame

----------------------------------------------------------------------------
\* The shrink-to-fit loops of draw_header (title) and draw_guest_section
\* (guest name)

TITLE_MAX_ATTEMPTS == 10
NAME_MAX_ATTEMPTS == 15

ShrinkLoops ==
    { [stage |-> "draw_header", initial |-> Px(64),
       max_attempts |-> TITLE_MAX_ATTEMPTS, limit |-> content_width],
      [stage |-> "draw_guest_section", initial |-> Px(72),
       max_attempts |-> NAME_MAX_ATTEMPTS, limit |-> content_width - 100] }

\* right edges self.draw.textbbox may report for the text: none, just
\* fitting, one pixel too wide, far too wide
TextEdges(limit) == {0, limit, limit + 1, 2 * limit}

\* a step of one pixel size
shrunk_by_one(size) == size - 1

\* font_size -= 2
shrunk(size) == size - 2

ShrinkIdle ==
    /\ shrink = [stage |-> "none", initial |-> 0, max_attempts |-> 0,
                 limit |-> 0]
    /\ spc = "idle"
    /\ font_size = 0
    /\ attempts = 0
    /\ measured = << >>

\* font_size = int(64 * scale) or int(72 * scale); attempts = 0
ShrinkInit ==
    /\ shrink \in ShrinkLoops
    /\ spc = "while"
    /\ font_size = shrink.initial
    /\ attempts = 0
    /\ measured = << >>

\* the loop condition: attempts < max_attempts and textbbox(...)[2] > limit.
\* The text is only measured when attempts are left; textbbox may raise,
\* which ends the stage in its except clause.
ShrinkWhile ==
    /\ spc = "while"
    /\ IF attempts < shrink.max_attempts
       THEN \E edge \in TextEdges(shrink.limit), ok \in BOOLEAN :
               IF ~ok
               THEN /\ edge = 0
                    /\ spc' = "raised"
                    /\ UNCHANGED measured
               ELSE /\ measured' = Append(measured,
                                          [size |-> font_size, edge |-> edge])
                    /\ spc' = IF edge > shrink.limit THEN "body" ELSE "done"
       ELSE /\ spc' = "done"
            /\ UNCHANGED measured
    /\ UNCHANGED <<font_size, attempts>>
    /\ ShrinkFrame

\* the loop body: a smaller font, one more attempt
ShrinkBody ==
    /\ spc = "body"
    /\ font_size' = shrunk(font_size)
    /\ attempts' = attempts + 1
    /\ spc' = "while"
    /\ UNCHANGED measured
    /\ ShrinkFrame

----------------------------------------------------------------------------
\* The artifact names of generate_invitation_card, for any full name

MaxFullName == 3

\* characters of a full_name: a letter, the white space characters, the
\* two path separators, an apostrophe
NameChars == {"a", " ", "\t", "\n", "/", "\\", "'"}

RECURSIVE StringsUpTo(_, _)
StringsUpTo(chars, n) ==
    IF n = 0
    THEN {<< >>}
    ELSE LET shorter == StringsUpTo(chars, n - 1)
         IN  shorter \cup
               { Append(w, c) : w \in { v \in shorter : Len(v) = n - 1 },
                                c \in chars }

FullNames == StringsUpTo(NameChars, MaxFullName)

NoNames == [card |-> << >>, qr |-> << >>]

FileIdle ==
    /\ file_in = NoRow
    /\ file_out = NoNames

FileInit ==
    /\ file_in \in { NewGuest(id, EmailOf(id), name, UuidOf(1)) :
                        id \in GuestIds, name \in FullNames }
    /\ file_out = NoNames

\* filename = f"invitation_{...}.png"; f"qr_{guest.id}.png"
DeriveFilenames ==
    /\ file_out = NoNames
    /\ file_out' = [card |-> card_filename(file_in),
                    qr |-> qr_filename(file_in)]
    /\ UNCHANGED file_in
    /\ FileFrame

----------------------------------------------------------------------------
\* CardGenerator.add_decorative_elements: the shapes in the corners

\* margin = self.margin + int(50 * scale): the side of a corner square
corner_margin == margin + Px(50)

\* safe_areas, in the order of the list
safe_areas ==
    << [x |-> <<0, corner_margin>>, y |-> <<0, corner_margin>>],
       [x |-> <<width - corner_margin, width>>, y |-> <<0, corner_margin>>],
       [x |-> <<0, corner_margin>>, y |-> <<height - corner_margin, height>>],
       [x |-> <<width - corner_margin, width>>,
        y |-> <<height - corner_margin, height>>] >>

\* the theme of an event with the default colours
DefaultTheme ==
    [primary |-> << "#", "7", "C", "3", "A", "E", "D" >>,
     secondary |-> << "#", "F", "0", "E", "6", "F", "F" >>,
     accent |-> << "#", "8", "5", "2", "D", "6", "3" >>]

\* colors = [hex_to_rgb(primary), hex_to_rgb(secondary), hex_to_rgb(accent)]
colors ==
    << hex_to_rgb(DefaultTheme.primary), hex_to_rgb(DefaultTheme.secondary),
       hex_to_rgb(DefaultTheme.accent) >>

\* random.choice(['circle', 'star', 'diamond'])
shape_types == {"circle", "star", "diamond"}

\* random.randint(a, b): the ends of the range stand for its values
randint(a, b) == {a, b}

\* the passes of the inner loop: random.randint(1, 3), every value
Passes == 1..3

NoShape == [kind |-> "none"]

DecorIdle ==
    /\ show_decorations = FALSE
    /\ dpc = "idle"
    /\ area = 0
    /\ left = 0
    /\ shapes = [a \in 1..4 |-> 0]
    /\ shape = NoShape

DecorInit ==
    /\ show_decorations \in BOOLEAN
    /\ dpc = "call"
    /\ area = 0
    /\ left = 0
    /\ shapes = [a \in 1..4 |-> 0]
    /\ shape = NoShape

\* if not show_decorations: return; else the try block begins
DecorEnter ==
    /\ dpc = "call"
    /\ IF show_decorations
       THEN /\ dpc' = "areas"
            /\ area' = 1
       ELSE /\ dpc' = "done"
            /\ UNCHANGED area
    /\ UNCHANGED <<left, shapes, shape>>
    /\ DecorFrame

\* for area in safe_areas: for _ in range(random.randint(1, 3))
DecorArea ==
    /\ dpc = "areas"
    /\ IF area > Len(safe_areas)
       THEN /\ dpc' = "done"
            /\ UNCHANGED left
       ELSE /\ \E n \in Passes : left' = n
            /\ dpc' = "shapes"
    /\ UNCHANGED <<area, shapes, shape>>
    /\ DecorFrame

\* one pass of the inner loop; raises: the drawing call fails, which ends the
\* stage in its except clause
DecorShape ==
    /\ dpc = "shapes"
    /\ IF left = 0
       THEN /\ area' = area + 1
            /\ dpc' = "areas"
            /\ UNCHANGED <<left, shapes, shape>>
       ELSE \E shape_size \in randint(Px(20), Px(60)) :
            \E shape_x \in randint(safe_areas[area].x[1],
                                   safe_areas[area].x[2] - shape_size) :
            \E shape_y \in randint(safe_areas[area].y[1],
                                   safe_areas[area].y[2] - shape_size) :
            \E color \in { colors[i] : i \in 1..Len(colors) } :
            \E shape_type \in shape_types, raises \in BOOLEAN :
               IF shape_type \notin {"circle", "diamond"}
               THEN /\ ~raises
                    /\ left' = left - 1
                    /\ UNCHANGED <<dpc, area, shapes, shape>>
               ELSE IF raises
               THEN /\ dpc' = "failed"
                    /\ UNCHANGED <<area, left, shapes, shape>>
               ELSE /\ shape' = [kind |-> shape_type, area |-> area,
                                 fill |-> color, x |-> shape_x, y |-> shape_y,
                                 size |-> shape_size]
                    /\ shapes' = [shapes EXCEPT ![area] = @ + 1]
                    /\ left' = left - 1
                    /\ UNCHANGED <<dpc, area>>
    /\ DecorFrame

----------------------------------------------------------------------------
\* batch_send_invitations(event_id, via)

NumSendGuests == 2

\* event.guests.all()
SendGuests == 1..NumSendGuests

\* the targets of the threads started for one guest, in the order of the
\* two if statements
Targets(v) ==
    (IF v \in {"email", "both"} THEN << "send_invitation_email" >> ELSE << >>)
    \o (IF v \in {"whatsapp", "both"}
        THEN << "send_whatsapp_invitation" >> ELSE << >>)

RECURSIVE ToStart(_, _)
\* the threads the loop starts, guest by guest from guest g on
ToStart(v, g) ==
    IF g > NumSendGuests THEN << >>
    ELSE [i \in 1..Len(Targets(v)) |-> [guest |-> g, target |-> Targets(v)[i]]]
         \o ToStart(v, g + 1)

\* a guest object and its row: which thread's card and QR image the fields
\* of the object hold, and which the row last saved holds (0: none)
NoArtifacts ==
    [invitation_card |-> 0, qr_code_image |-> 0,
     saved_card |-> 0, saved_qr |-> 0]

SendIdle ==
    /\ via = "none"
    /\ mpc = "idle"
    /\ to_start = << >>
    /\ threads = << >>
    /\ artifacts = << >>

SendInit ==
    /\ via \in {"email", "whatsapp", "both"}
    /\ mpc = "start"
    /\ to_start = ToStart(via, 1)
    /\ threads = << >>
    /\ artifacts = [g \in SendGuests |-> NoArtifacts]

\* t.start(), or the end of the for loop over the guests
SendStart ==
    /\ mpc = "start"
    /\ IF to_start = << >>
       THEN /\ mpc' = "join"
            /\ UNCHANGED <<to_start, threads>>
       ELSE /\ threads' = Append(threads,
                                 [guest |-> Head(to_start).guest,
                                  target |-> Head(to_start).target,
                                  pc |-> "started", joined |-> FALSE])
            /\ to_start' = Tail(to_start)
            /\ UNCHANGED mpc
    /\ UNCHANGED artifacts
    /\ SendFrame

\* for t in threads: t.join() -- returns once thread t has finished
SendJoin ==
    /\ mpc = "join"
    /\ IF \A i \in 1..Len(threads) : threads[i].joined
       THEN /\ mpc' = "returned"
            /\ UNCHANGED threads
       ELSE LET i == CHOOSE k \in 1..Len(threads) :
                        /\ ~threads[k].joined
                        /\ \A j \in 1..(k - 1) : threads[j].joined
            IN  /\ threads[i].pc = "finished"
                /\ threads' = [threads EXCEPT ![i].joined = TRUE]
                /\ UNCHANGED mpc
    /\ UNCHANGED <<to_start, artifacts>>
    /\ SendFrame

\* the thread's target calls generate_invitation_card(guest); rendering may
\* fail, and the function then returns False without touching the guest
ThreadGenerate(t) ==
    /\ threads[t].pc = "started"
    /\ threads' = [threads EXCEPT ![t].pc = "rendered"]
    /\ UNCHANGED <<mpc, to_start, artifacts>>
    /\ SendFrame

\* the render of the card and of the QR image; fails: an exception, which
\* generate_invitation_card catches
ThreadRender(t) ==
    /\ threads[t].pc = "rendered"
    /\ \E fails \in BOOLEAN :
          threads' = [threads EXCEPT
                         ![t].pc = IF fails THEN "send" ELSE "card_file"]
    /\ UNCHANGED <<mpc, to_start, artifacts>>
    /\ SendFrame

\* guest.invitation_card.save(filename, File(card_buffer), save=False)
ThreadCardFile(t) ==
    /\ threads[t].pc = "card_file"
    /\ artifacts' = [artifacts EXCEPT ![threads[t].guest].invitation_card = t]
    /\ threads' = [threads EXCEPT ![t].pc = "qr_file"]
    /\ UNCHANGED <<mpc, to_start>>
    /\ SendFrame

\* guest.qr_code_image.save(f"qr_{guest.id}.png", File(qr_buffer), save=False)
ThreadQrFile(t) ==
    /\ threads[t].pc = "qr_file"
    /\ artifacts' = [artifacts EXCEPT ![threads[t].guest].qr_code_image = t]
    /\ threads' = [threads EXCEPT ![t].pc = "save"]
    /\ UNCHANGED <<mpc, to_start>>
    /\ SendFrame

\* guest.save(): the row takes the fields of the guest object
ThreadSave(t) ==
    /\ threads[t].pc = "save"
    /\ LET g == threads[t].guest
       IN  artifacts' = [artifacts EXCEPT
                            ![g].saved_card = artifacts[g].invitation_card,
                            ![g].saved_qr = artifacts[g].qr_code_image]
    /\ threads' = [threads EXCEPT ![t].pc = "send"]
    /\ UNCHANGED <<mpc, to_start>>
    /\ SendFrame

\* the rest of the target: the message is sent, or sending raises; either
\* way the thread ends
ThreadSend(t) ==
    /\ threads[t].pc = "send"
    /\ threads' = [threads EXCEPT ![t].pc = "finished"]
    /\ UNCHANGED <<mpc, to_start, artifacts>>
    /\ SendFrame

MoreIdle == DecorIdle /\ SendIdle

----------------------------------------------------------------------------
\* Specifications

\* none of the helper functions is being called
HelperIdle ==
    HexIdle /\ FontIdle /\ WrapIdle /\ ShrinkIdle /\ FileIdle /\ MoreIdle

\* one call of CardGenerator.generate()
Init == GenInit /\ QrIdle /\ TableIdle /\ BatchIdle /\ HelperIdle
Next == GenNext
Spec == Init /\ [][Next]_vars

\* one call of generate_qr_code()
InitQR == QrInit /\ GenIdle /\ TableIdle /\ BatchIdle /\ HelperIdle
NextQR == QrNext
SpecQR == InitQR /\ [][NextQR]_vars

\* any sequence of requests on the Guest table
InitGuests == TableInit /\ BatchIdle /\ GenIdle /\ QrIdle /\ HelperIdle
NextGuests ==
    \/ AddGuest
    \/ ImportGuest
    \/ UpdateGuest
    \/ ConfirmAttendance
    \/ RegenerateCard
    \/ DeleteGuest
SpecGuests == InitGuests /\ [][NextGuests]_vars

\* one call of generate_cards_for_event() while other requests add and
\* remove guests
InitBatch == TableSeeded /\ BatchInit /\ GenIdle /\ QrIdle /\ HelperIdle
NextBatch ==
    \/ BatchCount
    \/ BatchFetch
    \/ BatchGuest
    \/ BatchSummary
    \/ AddGuest
    \/ DeleteGuest
SpecBatch == InitBatch /\ [][NextBatch]_vars

\* one call of hex_to_rgb()
ProgramIdle == GenIdle /\ QrIdle /\ TableIdle /\ BatchIdle /\ MoreIdle
InitHex ==
    /\ HexInit
    /\ ProgramIdle /\ FontIdle /\ WrapIdle /\ ShrinkIdle /\ FileIdle
NextHex == HexCall
SpecHex == InitHex /\ [][NextHex]_vars

\* one run of the body of load_custom_font()
InitFont ==
    /\ FontBodyInit /\ FontCacheIdle
    /\ ProgramIdle /\ HexIdle /\ WrapIdle /\ ShrinkIdle /\ FileIdle
NextFont == FontBody
SpecFont == InitFont /\ [][NextFont]_vars

\* threads calling load_custom_font() through its cache
InitFontCache ==
    /\ FontCacheInit /\ FontBodyIdle
    /\ ProgramIdle /\ HexIdle /\ WrapIdle /\ ShrinkIdle /\ FileIdle
NextFontCache ==
    \E t \in Threads :
        \/ FontCall(t)
        \/ FontLookup(t)
        \/ FontMiss(t)
        \/ FontStore(t)
SpecFontCache == InitFontCache /\ [][NextFontCache]_vars

\* one call of wrap_text(); it runs on one thread, which keeps running
InitWrap ==
    /\ WrapInit
    /\ ProgramIdle /\ HexIdle /\ FontIdle /\ ShrinkIdle /\ FileIdle
NextWrap ==
    \/ WrapEnter
    \/ WrapOuter
    \/ WrapInner
    \/ WrapFlush
SpecWrap == InitWrap /\ [][NextWrap]_vars
SpecWrapLive == SpecWrap /\ WF_vars(NextWrap)

\* one run of a shrink-to-fit loop, on the thread that renders the card
InitShrink ==
    /\ ShrinkInit
    /\ ProgramIdle /\ HexIdle /\ FontIdle /\ WrapIdle /\ FileIdle
NextShrink ==
    \/ ShrinkWhile
    \/ ShrinkBody
SpecShrink == InitShrink /\ [][NextShrink]_vars
SpecShrinkLive == SpecShrink /\ WF_vars(NextShrink)

\* the names derived for one guest
InitFile ==
    /\ FileInit
    /\ ProgramIdle /\ HexIdle /\ FontIdle /\ WrapIdle /\ ShrinkIdle
NextFile == DeriveFilenames
SpecFile == InitFile /\ [][NextFile]_vars

\* one run of add_decorative_elements
InitDecor ==
    /\ DecorInit /\ SendIdle
    /\ GenIdle /\ QrIdle /\ TableIdle /\ BatchIdle
    /\ HexIdle /\ FontIdle /\ WrapIdle /\ ShrinkIdle /\ FileIdle
NextDecor ==
    \/ DecorEnter
    \/ DecorArea
    \/ DecorShape
SpecDecor == InitDecor /\ [][NextDecor]_vars

\* one call of batch_send_invitations and the threads it starts
InitSend ==
    /\ SendInit /\ DecorIdle
    /\ GenIdle /\ QrIdle /\ TableIdle /\ BatchIdle
    /\ HexIdle /\ FontIdle /\ WrapIdle /\ ShrinkIdle /\ FileIdle
NextSend ==
    \/ SendStart
    \/ SendJoin
    \/ \E t \in 1..Len(threads) : ThreadGenerate(t)
    \/ \E t \in 1..Len(threads) : ThreadRender(t)
    \/ \E t \in 1..Len(threads) : ThreadCardFile(t)
    \/ \E t \in 1..Len(threads) : ThreadQrFile(t)
    \/ \E t \in 1..Len(threads) : ThreadSave(t)
    \/ \E t \in 1..Len(threads) : ThreadSend(t)
SpecSend == InitSend /\ [][NextSend]_vars

----------------------------------------------------------------------------
\* Properties of generate()

BlankCard == ImageNew(1500, 2100, White)

\* C1: whatever the inputs and whichever stages fail, an image returned by
\* generate(), the blank fallback card included, is 1500 pixels wide and 2100
\* pixels high.
C1_Dimensions ==
    result.kind = "image" => result.image.size = <<1500, 2100>>

\* C1 witness: generate() has returned the blank fallback card after an
\* exception left a stage.
C1_Witness ==
    /\ pc = "done"
    /\ escaped # {}
    /\ result.kind = "image"
    /\ result.image.painted = {}

\* C2: generate() never raises: whenever an exception leaves a stage, it
\* returns a blank white canvas of the card dimensions.
C2_NeverRaises ==
    (pc = "done" /\ escaped # {}) => result = Returned(BlankCard)

\* C3 as claimed: for each of the nine stages, a failure raised while the
\* stage runs is caught inside it, all nine stages run and generate() returns
\* the canvas they drew on.
C3_EveryFailureCaught ==
    (pc = "done" /\ failed # {}) =>
        /\ escaped = {}
        /\ entered = Stages
        /\ result = Returned(card)

\* C3 amended: a failure raised in a stage's try block is caught inside the
\* stage, the later stages all run and generate() returns the canvas they
\* drew on, the failed stages missing from it.  Only the except clause of
\* create_background can itself fail; then no later stage runs and generate()
\* does not return self.card.
C3_FailuresCaughtInTry ==
    pc = "done" =>
        /\ escaped \subseteq {"create_background"}
        /\ escaped = {} =>
              /\ entered = Stages
              /\ result = Returned(card)
              /\ card.painted \cap failed = {}
        /\ escaped # {} =>
              /\ entered = <<"create_background">>
              /\ result \in {Raised, Returned(BlankCard)}

\* C3 witness: the first and the last stage and one in between failed, and
\* generate() returned the canvas the other stages drew on.
C3_Witness ==
    /\ pc = "done"
    /\ {"create_background", "draw_header", "add_footer"} \subseteq failed
    /\ result = Returned(card)
    /\ "draw_qr_section" \in card.painted


----------------------------------------------------------------------------
\* Properties of generate_qr_code() and generate_qr_data()

\* C6 as claimed: whenever the try block of generate_qr_code raises (at
\* add_data, make, make_image or resize), the call returns a blank image of
\* the background colour, size x size, and does not raise.
C6_BlankOnFailure ==
    (qpc = "done" /\ qlocals.raised) =>
        qres = Returned(ImageNew(qargs.size, qargs.size,
                                 hex_to_rgb(qargs.bg_color)))

\* reading a payload back, field by field, the way a scanner's consumer does
FieldEnd(s, from) ==
    IF \E i \in from..Len(s) : s[i] = "|"
    THEN (CHOOSE i \in from..Len(s) :
              s[i] = "|" /\ \A j \in from..(i - 1) : s[j] # "|") - 1
    ELSE Len(s)

RECURSIVE ParseNat(_)
ParseNat(s) ==
    IF s = << >> THEN 0
    ELSE 10 * ParseNat(SubSeq(s, 1, Len(s) - 1))
         + ((CHOOSE i \in 1..10 : Digits[i] = s[Len(s)]) - 1)

IsDecimal(s) ==
    /\ s # << >>
    /\ \A i \in 1..Len(s) : \E d \in 1..10 : Digits[d] = s[i]
    /\ Len(s) > 1 => s[1] # "0"

HasPrefix(s, p) == Len(s) >= Len(p) /\ SubSeq(s, 1, Len(p)) = p

\* the canonical text of a UUID read back as 32 digit values
IsUuidText(t) ==
    /\ Len(t) = 36
    /\ \A i \in 1..36 :
          IF i \in {9, 14, 19, 24} THEN t[i] = "-"
          ELSE \E d \in 1..16 : HexLower[d] = t[i]
UuidDigitAt(t, k) ==
    LET i == k + (IF k > 8 THEN 1 ELSE 0) + (IF k > 12 THEN 1 ELSE 0)
               + (IF k > 16 THEN 1 ELSE 0) + (IF k > 20 THEN 1 ELSE 0)
    IN  (CHOOSE d \in 1..16 : HexLower[d] = t[i]) - 1

PayloadMatches(data, guest) ==
    LET e1 == FieldEnd(data, 1)
        f1 == SubSeq(data, 1, e1)
        e2 == FieldEnd(data, e1 + 2)
        f2 == SubSeq(data, e1 + 2, e2)
        f3 == SubSeq(data, e2 + 2, Len(data))
        ev == SubSeq(f1, 7, Len(f1))
        gu == SubSeq(f2, 7, Len(f2))
        co == SubSeq(f3, 6, Len(f3))
    IN  /\ e1 < Len(data) /\ e2 < Len(data)
        /\ \A i \in 1..Len(f3) : f3[i] # "|"
        /\ HasPrefix(f1, << "E", "V", "E", "N", "T", ":" >>)
        /\ HasPrefix(f2, << "G", "U", "E", "S", "T", ":" >>)
        /\ HasPrefix(f3, << "C", "O", "D", "E", ":" >>)
        /\ IsDecimal(ev) /\ ParseNat(ev) = guest.event
        /\ IsDecimal(gu) /\ ParseNat(gu) = guest.id
        /\ IsUuidText(co)
        /\ \A k \in 1..32 : UuidDigitAt(co, k) = guest.qr_code[k]

\* C9: the payload is exactly EVENT:<event id>|GUEST:<guest id>|CODE:<qr_code>:
\* read back field by field it gives the event id, the guest id and, after
\* the last "CODE:", the guest's own qr_code, with nothing else in it.
C9_PayloadFormat ==
    (qpc # "caller" /\ qpc # "idle" /\ Encodable(qargs.data)) =>
        PayloadMatches(qargs.data, qguest)

\* C9 witness: the payload of guest 42 of event 5 has been produced and
\* handed to generate_qr_code.
C9_Witness ==
    /\ qpc = "done"
    /\ qguest.id = 42 /\ qguest.event = 5 /\ qguest.qr_code = UuidOf(1)
    /\ Encodable(qargs.data)
    /\ Len(qargs.data) = 58
    /\ qres.kind = "image"

----------------------------------------------------------------------------
\* Properties of generate_invitation_card() and generate_cards_for_event()

\* C4: generate_invitation_card(guest) never raises to its caller: it returns
\* True when every statement of its try block completed and False when
\* generate(), the PNG encoding, a file store, the standalone QR code or
\* guest.save() raised.
C4_BooleanResult ==
    rendered # NoCall =>
        /\ rendered.ret \in {"True", "False"}
        /\ (rendered.ret = "True") <=> ~rendered.raised

\* a call in which CardGenerator.generate() raised came back with False
C4_Witness ==
    /\ rendered # NoCall
    /\ rendered.gen = "raise"
    /\ rendered.ret = "False"

\* C5: when generate_invitation_card(guest) returns False for a guest that
\* had no invitation card, neither the guest object nor its stored row has
\* invitation_card or qr_code_image set by the call.
C5_NoArtifactAfterFailure ==
    (/\ rendered # NoCall
     /\ rendered.ret = "False"
     /\ rendered.before.invitation_card = NoFile
     /\ rendered.before.qr_code_image = NoFile)
        => /\ rendered.after.invitation_card = NoFile
           /\ rendered.after.qr_code_image = NoFile
           /\ rendered.row = rendered.row_before

WithStatus(res, statuses) ==
    Cardinality({ i \in DOMAIN res : res[i].status \in statuses })

\* C8: the summary of generate_cards_for_event agrees with its entries:
\* total is the number of entries, success the number of 'success' entries,
\* failed the number of 'failed' and 'error' entries.
C8_SummaryConsistent ==
    summary.kind = "summary" =>
        /\ summary.total = Len(summary.results)
        /\ summary.success = WithStatus(summary.results, {"success"})
        /\ summary.failed = WithStatus(summary.results, {"failed", "error"})

----------------------------------------------------------------------------
\* Properties of the Guest table

\* C10: after any sequence of requests (creation, import that updates an
\* existing guest, update, card generation and regeneration, confirmation,
\* check-in, deletion) every guest's qr_code is the one it got when it was
\* created, and no two guests share a qr_code.
C10_QrCodeKept ==
    /\ \A j \in Existing : guests[j].qr_code = issued[j]
    /\ \A j, k \in Existing : j # k => guests[j].qr_code # guests[k].qr_code

\* two guests, one of them with a card and confirmed
C10_Witness ==
    /\ Cardinality(Existing) = 2
    /\ \E j \in Existing :
          /\ guests[j].confirmed
          /\ guests[j].invitation_card # NoFile

----------------------------------------------------------------------------
\* Properties of hex_to_rgb()

\* a colour string as the specification reads it: an optional '#', then 3, 6
\* or 8 hexadecimal digits
ValidHexText(s) ==
    LET digits == IF s # << >> /\ Head(s) = "#" THEN Tail(s) ELSE s
    IN  /\ Len(digits) \in {3, 6, 8}
        /\ \A i \in 1..Len(digits) : IsHexDigit(digits[i])

\* the brand purple, the default of Event.primary_color
BrandPurpleHex == << "#", "7", "C", "3", "A", "E", "D" >>

\* C11: the colour hex_to_rgb falls back to for invalid input is the brand
\* purple, the triple hex_to_rgb gives for '#7C3AED'.
C11_FallbackIsBrandPurple ==
    (/\ hex_out # NoColour
     /\ ~ValidHexText(hex_in)
     /\ hex_out.value = DefaultPurple)
        => hex_out.value = hex_to_rgb(BrandPurpleHex)

\* C12: for every input whose digits, after a leading '#', do not number 3,
\* 6 or 8, or that holds a character that is no hexadecimal digit,
\* hex_to_rgb returns (124, 61, 237).
C12_InvalidGivesFallback ==
    (hex_out # NoColour /\ ~ValidHexText(hex_in))
        => hex_out.value = <<124, 61, 237>>

\* two lower-case hexadecimal digits of a byte
Hex2(n) == << HexLower[(n \div 16) + 1], HexLower[(n % 16) + 1] >>
rgb_to_hex(rgb) == Hex2(rgb[1]) \o Hex2(rgb[2]) \o Hex2(rgb[3])
lower(s) ==
    [i \in 1..Len(s) |->
        IF IsHexDigit(s[i]) THEN HexLower[HexValue(s[i]) + 1] ELSE s[i]]
SixDigits(s) ==
    LET digits == IF s # << >> /\ Head(s) = "#" THEN Tail(s) ELSE s
    IN  IF Len(digits) = 6 /\ \A i \in 1..6 : IsHexDigit(digits[i])
        THEN digits ELSE << >>

\* C13: for every valid 6-digit hex string h, with or without '#', the
\* triple hex_to_rgb(h) holds three bytes and written back as six
\* hexadecimal digits it is h up to letter case.
C13_RoundTrip ==
    (hex_out # NoColour /\ SixDigits(hex_in) # << >>)
        => /\ \A i \in 1..3 : hex_out.value[i] \in 0..255
           /\ rgb_to_hex(hex_out.value) = lower(SixDigits(hex_in))

\* '#3aED7C' was converted to (58, 237, 124)
C13_Witness ==
    /\ hex_in = << "#", "3", "a", "E", "D", "7", "C" >>
    /\ hex_out = Colour(<<58, 237, 124>>)

----------------------------------------------------------------------------
\* Properties of load_custom_font()

\* C14: load_custom_font always returns a font and never raises, whatever
\* the name and size (an empty name, a size of zero or less, a name that
\* matches no file and no fallback entry, files that do not load): a
\* TrueType font of the requested size from a file that loads, or the
\* built-in default font.
C14_AlwaysAFont ==
    font_out # NoFont =>
        \/ font_out = DefaultFont
        \/ /\ font_out.kind = "truetype"
           /\ font_out.size = font_in.size
           /\ font_in.size > 0
           /\ \/ /\ font_out.found = "font_paths"
                 /\ \E i \in 1..9 :
                       /\ font_out.path = font_paths(font_in.font_name)[i]
                       /\ font_in.env.direct[i] = "ok"
              \/ /\ font_out.found = "fallback_map"
                 /\ font_out.path \in FallbackPaths
                 /\ font_in.env.fallback[font_out.path] = "ok"
              \/ /\ font_out.found = "arial"
                 /\ font_in.env.arial

\* a name that matches nothing, every file there is broken, no arial.ttf:
\* the default font came back
C14_Witness ==
    /\ font_in.font_name = << "N", "o", "S", "u", "c", "h", "F", "o", "n",
                              "t", "1", "2", "3" >>
    /\ font_in.size = 40
    /\ font_in.env.direct = [i \in 1..9 |-> "broken"]
    /\ font_in.env.fallback = [f \in FallbackPaths |-> "broken"]
    /\ ~font_in.env.arial
    /\ font_out = DefaultFont

CachedKeys == KeysOf(font_cache)
DistinctKeys == Cardinality(CachedKeys) = Len(font_cache)

\* C15: the font cache never holds more than 256 entries nor two for one
\* (font name, size) key; an entry leaves it only when a new key arrives at
\* a cache of 256, and it is then the least recently used one; a call that
\* finds its key cached returns the cached font without looking at the file
\* system.
C15_BoundedLruCache ==
    /\ Len(font_cache) <= 256
    /\ DistinctKeys
    /\ \A t \in DOMAIN callers :
          /\ callers[t].evicted # NoKey =>
                /\ callers[t].size_before = 256
                /\ callers[t].evicted_used = callers[t].oldest_used
          /\ callers[t].hit => /\ ~callers[t].probed
                               /\ callers[t].font = callers[t].cached

\* the cache held 256 fonts; one call found the oldest key cached, and then
\* the 257th key pushed out the second oldest
C15_Witness ==
    /\ Len(font_cache) = 256
    /\ \E t, u \in DOMAIN callers :
          /\ callers[t].pc = "returned"
          /\ callers[t].hit
          /\ callers[t].key = SeedKey(1)
          /\ callers[u].pc = "returned"
          /\ callers[u].evicted = SeedKey(2)
    /\ SeedKey(1) \in CachedKeys

\* a font that serves a request for key
FitsKey(font, key) ==
    \/ font = DefaultFont
    \/ /\ font.kind = "truetype"
       /\ font.size = key.size
       /\ font.found = "font_paths" => font.path[2] = key.font_name

\* C16: however the calls of the threads interleave, every call returns a
\* font for its own key and the cache stays well formed: every entry is a
\* font for its key, no key is there twice, no key is missing that was not
\* pushed out of a full cache, and there are never more than 256 entries.
C16_ConcurrentCallsSafe ==
    /\ \A t \in DOMAIN callers :
          callers[t].pc = "returned" => FitsKey(callers[t].font, callers[t].key)
    /\ \A i \in 1..Len(font_cache) :
          FitsKey(font_cache[i].font, font_cache[i].key)
    /\ DistinctKeys
    /\ Len(font_cache) <= FONT_CACHE_MAXSIZE
    /\ Len(font_cache) = font_uses.stored - font_uses.evicted
    /\ font_uses.evicted > 0 => Len(font_cache) = FONT_CACHE_MAXSIZE

\* two threads missed the same key at the same time, both ran the body and
\* both returned; the key is cached once
C16_Witness ==
    \E t, u \in DOMAIN callers :
        /\ t # u
        /\ callers[t].pc = "returned" /\ callers[u].pc = "returned"
        /\ callers[t].key = callers[u].key
        /\ callers[t].probed /\ callers[u].probed
        /\ callers[t].font # callers[u].font
        /\ callers[t].key \in CachedKeys

----------------------------------------------------------------------------
\* Properties of wrap_text()

RECURSIVE WordsOf(_)
\* the words of a list of lines, in order
WordsOf(ls) == IF ls = << >> THEN << >> ELSE split(Head(ls)) \o WordsOf(Tail(ls))

WrapResultOk ==
    /\ wrap_in.text = << >> => lines = << >>
    /\ WordsOf(lines) = split(wrap_in.text)
    /\ \A i \in 1..Len(lines) :
          \A w \in { split(lines[i])[k] : k \in 1..Len(split(lines[i])) } :
              TextWidth(w) > wrap_in.max_width => lines[i] = w

----------------------------------------------------------------------------
\* Properties of the shrink-to-fit loops

\* C18: each shrink-to-fit loop ends; every attempt lowers the font size by
\* exactly 2, the size is the initial size minus 2k with k attempts, k at
\* most 10 for the title and 15 for the guest name; when it ends with
\* attempts left the text fits at the final size and fitted at no larger
\* size tried; when the attempts are used up the last size is kept.
C18_ShrinkToFit ==
    /\ [](/\ attempts \in 0..shrink.max_attempts
          /\ shrink.stage = "draw_header" => shrink.max_attempts = 10
          /\ shrink.stage = "draw_guest_section" => shrink.max_attempts = 15
          /\ font_size = shrink.initial - 2 * attempts
          /\ \A i \in 1..Len(measured) :
                /\ measured[i].size = shrink.initial - 2 * (i - 1)
                /\ i < Len(measured) => measured[i].edge > shrink.limit
          /\ (spc = "done" /\ attempts < shrink.max_attempts) =>
                /\ Len(measured) = attempts + 1
                /\ measured[Len(measured)].size = font_size
                /\ measured[Len(measured)].edge <= shrink.limit
          /\ (spc = "done" /\ attempts = shrink.max_attempts) =>
                /\ Len(measured) = attempts
                /\ \A i \in 1..Len(measured) : measured[i].edge > shrink.limit)
    /\ <>(spc \in {"done", "raised"})

\* the title did not fit at 200, 198, 196 and 194 and fitted at 192
C18_Witness ==
    /\ shrink.stage = "draw_header"
    /\ spc = "done"
    /\ attempts = 4
    /\ font_size = 192
    /\ measured[5] = [size |-> 192, edge |-> content_width]

----------------------------------------------------------------------------
\* Properties of the artifact names

PathSeparators == {"/", "\\"}

\* the full name with white space and path separators made underscores
SanitizedName(name) ==
    [i \in 1..Len(name) |->
        IF name[i] \in {" ", "\t", "\n"} \cup PathSeparators
        THEN "_"
        ELSE name[i]]

\* C19: the card is named invitation_<event id>_<guest id>_<name>.png, the
\* name being the full name with every space, tab, newline, '/' and '\'
\* replaced by an underscore and every other character kept; the QR code is
\* named qr_<guest id>.png.
C19_SanitizedFilename ==
    file_out # NoNames =>
        /\ file_out.card =
              << "i", "n", "v", "i", "t", "a", "t", "i", "o", "n", "_" >>
                \o str_int(file_in.event) \o << "_" >>
                \o str_int(file_in.id) \o << "_" >>
                \o SanitizedName(file_in.full_name)
                \o << ".", "p", "n", "g" >>
        /\ file_out.qr =
              << "q", "r", "_" >> \o str_int(file_in.id)
                \o << ".", "p", "n", "g" >>

----------------------------------------------------------------------------
\* Properties of the order of the stages

\* C20: in every run of generate() that does not take the fallback, the nine
\* stages are entered once each, in the order background, border, header,
\* guest block, message, details panel, QR block, decorative motifs, footer;
\* none is entered again and no two run at the same time.
C20_StagesInOrder ==
    /\ [](/\ entered = SubSeq(Stages, 1, Len(entered))
          /\ pc \in {"return", "done"} /\ escaped = {} => entered = Stages
          /\ pc \notin {"return", "done", "except", "idle"} =>
                /\ Len(entered) < Len(Stages)
                /\ pc = Stages[Len(entered) + 1])
    /\ [][\/ entered' = entered
          \/ /\ pc \notin {"return", "done", "except", "idle"}
             /\ entered' = Append(entered, pc)]_vars

\* a run in which no stage failed returned after the footer, the ninth stage
\* entered
C20_Witness ==
    /\ pc = "done"
    /\ failed = {}
    /\ escaped = {}
    /\ Len(entered) = 9
    /\ entered[1] = "create_background"
    /\ entered[9] = "add_footer"
    /\ result.kind = "image"

----------------------------------------------------------------------------
\* Properties of the layout

\* the cursor that reaches draw_qr_section in a render whose stages all
\* succeed, with a title 150 pixels high and a message of one line
OneLineCursor ==
    HeaderY(150) + (Px(140) + Px(40)) + (1 * (Px(36) + Px(10)) + Px(30))
        + (Px(280) + Px(40))

\* C21: the place of the QR block depends on the canvas dimensions only, not
\* on the cursor the earlier stages hand to draw_qr_section: every render
\* pastes the code at the coordinates the one-line render pastes it at.
C21_QrPlaceFixed ==
    pasted # NoPaste => pasted = qr_paste(OneLineCursor)

----------------------------------------------------------------------------
\* Properties of the line breaks of wrap_text

\* C22: the next word is pulled onto the current line exactly when the width
\* of the line followed by the word, with no further character, is at most
\* max_width; a word that makes the line exactly max_width wide stays on it.
C22_PullsWhileFits ==
    [][(wpc = "inner" /\ words # << >> /\ wrap_in.font_ok) =>
          ((words' = Tail(words) /\ line' = line \o Head(words) \o << " " >>)
             <=> TextWidth(line \o Head(words)) <= wrap_in.max_width)]_vars

----------------------------------------------------------------------------
\* Properties of the order in which load_custom_font looks for a font

\* C23: load_custom_font returns the first candidate that loads, looking in
\* the order (a) the file of that name in the font directories, (b) the
\* fallback table entries whose key is part of the name, (c) "arial.ttf",
\* (d) the built-in default font; and in (a), for every directory of the
\* list, both the .ttf and the .otf file are looked for, the .ttf first.
C23_ResolutionOrder ==
    (font_out # NoFont /\ font_in.font_name # << >> /\ font_in.size > 0) =>
        LET paths == font_paths(font_in.font_name)
            cands == FallbackCandidates(font_in.font_name, 1)
            status == [i \in 1..Len(cands) |-> font_in.env.fallback[cands[i]]]
            direct == FirstOk(paths, font_in.env.direct)
            fallback == FirstOk(cands, status)
        IN  /\ direct # 0 =>
                  font_out = TrueType("font_paths", paths[direct], font_in.size)
            /\ (direct = 0 /\ fallback # 0) =>
                  font_out = TrueType("fallback_map", cands[fallback],
                                      font_in.size)
            /\ (direct = 0 /\ fallback = 0 /\ font_in.env.arial) =>
                  font_out = TrueType("arial", "arial.ttf", font_in.size)
            /\ (direct = 0 /\ fallback = 0 /\ ~font_in.env.arial) =>
                  font_out = DefaultFont
            /\ \A i \in 1..Len(paths) :
                  \E t, o \in 1..Len(paths) :
                      /\ paths[t] = << paths[i][1], font_in.font_name, ".ttf" >>
                      /\ paths[o] = << paths[i][1], font_in.font_name, ".otf" >>
                      /\ t < o

----------------------------------------------------------------------------
\* Properties of the decorations

\* the box of the shape lies inside the safe area
InsideArea(sh, a) ==
    /\ a.x[1] <= sh.x /\ sh.x + sh.size <= a.x[2]
    /\ a.y[1] <= sh.y /\ sh.y + sh.size <= a.y[2]

\* C24: with show_decorations on, whatever the random choices, the stage
\* draws at least one and at most three shapes in each of the four corner
\* zones, every shape a circle or a diamond filled with the primary, secondary
\* or accent colour and lying inside its zone; with show_decorations off it
\* draws nothing.
C24_CornerShapes ==
    /\ shape # NoShape =>
          /\ shape.kind \in {"circle", "diamond"}
          /\ shape.fill \in { hex_to_rgb(DefaultTheme.primary),
                              hex_to_rgb(DefaultTheme.secondary),
                              hex_to_rgb(DefaultTheme.accent) }
          /\ InsideArea(shape, safe_areas[shape.area])
    /\ \A a \in 1..4 : shapes[a] <= 3
    /\ (dpc = "done" /\ show_decorations) => \A a \in 1..4 : shapes[a] >= 1
    /\ ~show_decorations => (shape = NoShape /\ \A a \in 1..4 : shapes[a] = 0)

----------------------------------------------------------------------------
\* Properties of the corner zones

\* two rectangles share a pixel
Intersect(ax, ay, aw, ah, bx, by, bw, bh) ==
    /\ aw > 0 /\ ah > 0 /\ bw > 0 /\ bh > 0
    /\ ax < bx + bw /\ bx < ax + aw
    /\ ay < by + bh /\ by < ay + ah

\* C25: no corner zone of the decorations overlaps a text: the four corner
\* squares of side margin + int(50 * 300/96) do not meet the box of the
\* title, the guest name, a message line, a detail line, a line of the QR
\* instructions or a footer line.
C25_CornersClearOfText ==
    \A t \in texts : \A a \in 1..Len(safe_areas) :
        ~Intersect(t.x, t.y, t.w, t.h,
                   safe_areas[a].x[1], safe_areas[a].y[1],
                   safe_areas[a].x[2] - safe_areas[a].x[1],
                   safe_areas[a].y[2] - safe_areas[a].y[1])

----------------------------------------------------------------------------
\* Properties of the vertical layout

\* C26: the bordered QR code that draw_qr_section pastes lies inside the
\* 1500 x 2100 canvas: with qr_size 1000 and border 25, qr_y - 25 >= 0 and
\* qr_y + 1000 + 25 <= 2100 for the cursor qr_y that the header, guest,
\* message and details stages hand on.
C26_QrInsideCanvas ==
    pasted # NoPaste =>
        /\ qr_size = 1000 /\ border_size = 25
        /\ pasted.x >= 0 /\ pasted.x + pasted.w <= width
        /\ pasted.y >= 0 /\ pasted.y + pasted.h <= height

\* the stages that take and return the cursor
CursorStages ==
    {"draw_header", "draw_guest_section", "draw_invitation_message",
     "draw_event_details_card", "draw_qr_section"}

\* C27: the cursor grows through the pipeline: draw_header returns a positive
\* y, and draw_guest_section, draw_invitation_message,
\* draw_event_details_card and draw_qr_section each return a y greater than
\* the start_y they were given, whether they succeed or fail.
C27_CursorIncreases ==
    [][(pc \in CursorStages) =>
          (current_y' > 0 /\ current_y' > current_y)]_vars

\* the guest block and the QR block failed, the other stages did not: the
\* cursor handed to the footer is the sum of the five steps
C27_Witness ==
    /\ pc = "add_footer"
    /\ failed = {"draw_guest_section", "draw_qr_section"}
    /\ current_y = HeaderY(150) + Px(180) + (Px(36) + Px(10) + Px(30))
                      + (Px(280) + Px(40)) + Px(450)

----------------------------------------------------------------------------
\* Properties of the words wrap_text returns

\* C28: wrap_text neither loses, duplicates nor reorders words: at every
\* step the words of the finished lines, of the line being filled and the
\* words still waiting are the words of the text, in order, so that the
\* returned lines split on white space give exactly the words of the input;
\* and no returned line is empty.
C28_WordsKept ==
    /\ wpc \in {"outer", "inner"} =>
          WordsOf(lines) \o split(IF wpc = "inner" THEN line ELSE << >>)
              \o words = split(wrap_in.text)
    /\ wpc = "flush" =>
          WordsOf(lines) \o split(line) \o words = split(wrap_in.text)
    /\ wpc = "done" => WordsOf(lines) = split(wrap_in.text)
    /\ \A i \in 1..Len(lines) :
          /\ lines[i] # << >>
          /\ split(lines[i]) # << >>

\* 'i W i' at width 5 came back as the three lines 'i', 'W', 'i'
C28_Witness ==
    /\ wpc = "done"
    /\ wrap_in.text = << "i", " ", "W", " ", "i" >>
    /\ wrap_in.max_width = 5
    /\ lines = << << "i" >>, << "W" >>, << "i" >> >>

----------------------------------------------------------------------------
\* Properties of the channels hex_to_rgb returns

\* C29: for every string, hex_to_rgb returns three channels that are
\* integers from 0 to 255, for strings of length 3, 6 or 8 that hold '-',
\* '+' or ' ' too.
C29_ChannelsInRange ==
    hex_out # NoColour =>
        /\ Len(hex_out.value) = 3
        /\ \A i \in 1..3 : hex_out.value[i] \in 0..255

----------------------------------------------------------------------------
\* Properties of batch_send_invitations

\* thread t is inside generate_invitation_card
InGenerate(t) ==
    threads[t].pc \in {"rendered", "card_file", "qr_file", "save"}

\* C30: batch_send_invitations never has two threads inside
\* generate_invitation_card for the same guest, whatever via is ('both'
\* too), so the card and the QR image that guest.save() stores come from one
\* generation; and it returns only after every thread it started finished.
C30_OneGenerationPerGuest ==
    /\ \A t, u \in 1..Len(threads) :
          (t # u /\ threads[t].guest = threads[u].guest) =>
              ~(InGenerate(t) /\ InGenerate(u))
    /\ \A g \in DOMAIN artifacts :
          artifacts[g].saved_card = artifacts[g].saved_qr
    /\ mpc = "returned" =>
          /\ to_start = << >>
          /\ \A t \in 1..Len(threads) : threads[t].pc = "finished"

====
